---- MODULE Spec2Model ----
(***************************************************************************)
(* TradeWars plugin of BBMesh: the persisted repository (TradeWarsStorage), *)
(* the in-memory universe (UniverseManager), the trade arithmetic          *)
(* (TradeCalculator) and the per-turn session protocol (TradeWarsPlugin),  *)
(* driven through InteractivePlugin.execute by the host's session store.   *)
(*                                                                         *)
(* Text lines are sequences of one-character strings.  An Optional value   *)
(* is a sequence of length 0 (None) or 1.  Prices are kept in tenths of a  *)
(* credit (the code rounds every stored price to one decimal).             *)
(***************************************************************************)
EXTENDS Integers, Sequences, FiniteSets, TLC

\* ----- bounds of the model ------------------------------------------------
\* UniverseManager.TOTAL_SECTORS (100 in the code), scaled down
TOTAL_SECTORS == 3
\* UniverseManager.PORTS_COUNT (30 in the code), scaled down
PORTS_COUNT == 2
\* upper end of get_starting_sector's range (10 in the code), scaled down
START_SECTOR_MAX == 1
\* turns a new player is created with (1000 in the code), scaled down
START_TURNS == 2
\* random targets drawn by one run of generate_universe
MaxDraws == 1
\* executed trades, over all players
MaxTrades == 2
\* executed warps, over all players
MaxWarps == 2

\* ----- program constants --------------------------------------------------
START_CREDITS == 10000
CARGO_HOLDS == 20
PORT_CREDITS == 5000000
REGIME_THRESHOLD == 50000
NAME_MAX_LEN == 8

Nodes == {"!n1", "!n2"}
Sectors == 1..TOTAL_SECTORS

COMMODITIES == <<"Ore", "Organics", "Equipment", "Armor", "Batteries">>
CommoditySet == {COMMODITIES[i] : i \in 1..Len(COMMODITIES)}
BASE_PRICES == [c \in CommoditySet |->
    CASE c = "Ore" -> 250 [] c = "Organics" -> 180 [] c = "Equipment" -> 3800
      [] c = "Armor" -> 1200 [] c = "Batteries" -> 11]

\* ----- characters and lines ----------------------------------------------
LowerChars == <<"a","b","c","d","e","f","g","h","i","j","k","l","m",
                "n","o","p","q","r","s","t","u","v","w","x","y","z">>
UpperChars == <<"A","B","C","D","E","F","G","H","I","J","K","L","M",
                "N","O","P","Q","R","S","T","U","V","W","X","Y","Z">>
DigitChars == <<"0","1","2","3","4","5","6","7","8","9">>

Range(s) == {s[i] : i \in DOMAIN s}
IndexOf(seq, c) == CHOOSE i \in DOMAIN seq : seq[i] = c

\* str.upper() / str.lower() on one character
UpperChar(c) == IF c \in Range(LowerChars) THEN UpperChars[IndexOf(LowerChars, c)] ELSE c
LowerChar(c) == IF c \in Range(UpperChars) THEN LowerChars[IndexOf(UpperChars, c)] ELSE c
upper(s) == [i \in DOMAIN s |-> UpperChar(s[i])]
lower(s) == [i \in DOMAIN s |-> LowerChar(s[i])]

\* str.strip(): drop leading and trailing blanks
RECURSIVE lstrip(_)
lstrip(s) == IF s # <<>> /\ Head(s) = " " THEN lstrip(Tail(s)) ELSE s
RECURSIVE rstrip(_)
rstrip(s) == IF s # <<>> /\ s[Len(s)] = " " THEN rstrip(SubSeq(s, 1, Len(s) - 1)) ELSE s
strip(s) == rstrip(lstrip(s))

\* a test that only asks for a non-empty string
is_not_empty(s) == s # <<>>

\* str.isdigit(), str.isalnum(), int(str)
isdigit(s) == s # <<>> /\ \A i \in DOMAIN s : s[i] \in Range(DigitChars)
isalnum(s) == s # <<>> /\ \A i \in DOMAIN s :
                s[i] \in Range(DigitChars) \cup Range(LowerChars) \cup Range(UpperChars)
RECURSIVE int(_)
int(s) == IF s = <<>> THEN 0
          ELSE 10 * int(SubSeq(s, 1, Len(s) - 1)) + (IndexOf(DigitChars, s[Len(s)]) - 1)

\* ----- state --------------------------------------------------------------
VARIABLES
    players,          \* table players: sequence of rows, player_id = index
    ships,            \* table ships: sequence of rows, ship_id = index
    sectors,          \* table sectors: sector_id -> row, over the rows that exist
    ports,            \* table ports: sequence of rows, port_id = index
    game_state,       \* table game_state: key -> value, over the keys that exist
    universe_sectors, \* UniverseManager.sectors of the running process
    universe_ports,   \* UniverseManager.ports of the running process
    sessions,         \* host: node -> the plugin's session_data (the opaque state)
    message,          \* the last direct message routed to the plugin: sender and text
    response          \* the PluginResponse to that message

vars == <<players, ships, sectors, ports, game_state,
          universe_sectors, universe_ports, sessions, message, response>>

\* ----- small helpers ------------------------------------------------------
Min(S) == CHOOSE x \in S : \A y \in S : x <= y
Some(x) == <<x>>
None == <<>>

\* list.sort() on a list of integers
RECURSIVE sort(_)
sort(s) ==
    IF s = <<>> THEN <<>>
    ELSE LET m == Min(Range(s))
             i == Min({j \in DOMAIN s : s[j] = m})
         IN <<m>> \o sort(SubSeq(s, 1, i - 1) \o SubSeq(s, i + 1, Len(s)))

\* Python round() of the fraction num/den (num >= 0, den > 0): to nearest, ties to even
round(num, den) ==
    LET q == num \div den
        r == num % den
    IN IF 2 * r < den THEN q
       ELSE IF 2 * r > den THEN q + 1
       ELSE IF q % 2 = 0 THEN q ELSE q + 1

\* ----- UniverseManager ----------------------------------------------------
\* an edge appended to the list of a only
add_edge_one_way(S, a, b) ==
    IF b \in Range(S[a]) THEN S ELSE [S EXCEPT ![a] = Append(@, b)]

\* "if target not in sectors[a]: sectors[a].append(target)", both ways
AddEdge(S, a, b) ==
    LET S1 == IF b \in Range(S[a]) THEN S ELSE [S EXCEPT ![a] = Append(@, b)]
    IN IF a \in Range(S1[b]) THEN S1 ELSE [S1 EXCEPT ![b] = Append(@, a)]

\* a first pass that connects nothing
no_backbone(S, i) == S

\* first pass of generate_universe: the path 1 - 2 - ... - TOTAL_SECTORS
RECURSIVE Backbone(_, _)
Backbone(S, i) ==
    IF i >= TOTAL_SECTORS THEN S ELSE Backbone(AddEdge(S, i, i + 1), i + 1)

MAX_ATTEMPTS == 10
MAX_NEEDED == 2

\* the while loop of generate_universe for one sector: targets is the sequence of
\* random targets the loop draws (a target the distance bias rejects has the effect
\* of a target that is skipped: it only uses up an attempt)
RECURSIVE RandomConnections(_, _, _, _, _, _)
RandomConnections(S, sector_id, current_connections, needed, targets, attempts) ==
    IF Len(S[sector_id]) < current_connections + needed
       /\ attempts < MAX_ATTEMPTS /\ targets # <<>>
    THEN LET target == Head(targets)
         IN IF target # sector_id /\ target \notin Range(S[sector_id])
            THEN RandomConnections(AddEdge(S, sector_id, target), sector_id,
                                   current_connections, needed, Tail(targets), attempts + 1)
            ELSE RandomConnections(S, sector_id, current_connections, needed,
                                   Tail(targets), attempts + 1)
    ELSE S

\* second pass of generate_universe, sectors sector_id .. TOTAL_SECTORS
RECURSIVE RandomPass(_, _, _)
RandomPass(S, sector_id, draws) ==
    IF sector_id > TOTAL_SECTORS THEN S
    ELSE RandomPass(RandomConnections(S, sector_id, Len(S[sector_id]),
                                      draws[sector_id].needed,
                                      draws[sector_id].targets, 0),
                    sector_id + 1, draws)

\* generate_universe under the random draws `draws`
\* (draws[s].needed = randint(0, 2), draws[s].targets = the targets drawn for s)
generate_universe(draws) ==
    LET S0 == [i \in Sectors |-> <<>>]
        S2 == RandomPass(Backbone(S0, 1), 1, draws)
    IN [i \in Sectors |-> sort(S2[i])]

\* the random draws of generate_universe the model explores: at most MaxDraws
\* targets over the whole run, at most MAX_NEEDED for a sector, needed as large as
\* the targets drawn
NoDraws == [s \in Sectors |-> [needed |-> 0, targets |-> <<>>]]
RECURSIVE DrawsOf(_)
DrawsOf(k) ==
    IF k = 0 THEN {NoDraws}
    ELSE LET D == DrawsOf(k - 1)
         IN D \cup {[d EXCEPT ![s] = [needed |-> @.needed + 1,
                                      targets |-> Append(@.targets, t)]] :
                    <<d, s, t>> \in {x \in D \X Sectors \X Sectors :
                                        x[1][x[2]].needed < MAX_NEEDED}}
AllDraws == DrawsOf(MaxDraws)
\* the universes those draws generate, and one sequence of draws for each of them
\* (two sequences of draws that generate the same universe are the same run)
GeneratedUniverses == {generate_universe(d) : d \in AllDraws}
UniverseDraws ==
    {CHOOSE d \in AllDraws : generate_universe(d) = U : U \in GeneratedUniverses}

\* validate_universe: the breadth-first traversal from sector 1.  VisitNeighbors is
\* the loop over the neighbours of the sector taken from the queue, from index i on.
RECURSIVE VisitNeighbors(_, _, _, _)
VisitNeighbors(nbrs, i, queue, visited) ==
    IF i > Len(nbrs) THEN [queue |-> queue, visited |-> visited]
    ELSE IF nbrs[i] \notin visited
    THEN VisitNeighbors(nbrs, i + 1, Append(queue, nbrs[i]), visited \cup {nbrs[i]})
    ELSE VisitNeighbors(nbrs, i + 1, queue, visited)

RECURSIVE Traverse(_, _, _)
Traverse(S, queue, visited) ==
    IF queue = <<>> THEN visited
    ELSE LET sector == Head(queue)
             nbrs == IF sector \in DOMAIN S THEN S[sector] ELSE <<>>
             st == VisitNeighbors(nbrs, 1, Tail(queue), visited)
         IN Traverse(S, st.queue, st.visited)

validate_universe(S) ==
    IF DOMAIN S = {} \/ Cardinality(DOMAIN S) < 2 THEN FALSE
    ELSE Cardinality(Traverse(S, <<1>>, {1})) = TOTAL_SECTORS

\* select_port_sectors under the random offsets (offsets[i] = randint(0, step - 1))
select_port_sectors(offsets) ==
    LET step == TOTAL_SECTORS \div PORTS_COUNT
    IN {i * step + offsets[i] + 1 : i \in 0..(PORTS_COUNT - 1)} \cap Sectors

PortOffsets ==
    LET step == TOTAL_SECTORS \div PORTS_COUNT
    IN [0..(PORTS_COUNT - 1) -> 0..(step - 1)]

\* Dijkstra of find_path.  pq is the heap as a set of <<distance, sector>>; heappop
\* takes the least pair.  distances[s] is absent for float('inf'), previous[s] is
\* absent for None.
PairLess(p, q) == p[1] < q[1] \/ (p[1] = q[1] /\ p[2] < q[2])
heappop(pq) == CHOOSE p \in pq : \A q \in pq : p = q \/ PairLess(p, q)

\* "while node is not None: path.append(node); node = previous[node]", reversed
RECURSIVE ReconstructPath(_, _)
ReconstructPath(previous, node) ==
    IF node \in DOMAIN previous
    THEN Append(ReconstructPath(previous, previous[node]), node)
    ELSE <<node>>

\* the loop over the neighbours of `current`, from index i on
RECURSIVE Relax(_, _, _, _, _)
Relax(nbrs, i, current, current_dist, st) ==
    IF i > Len(nbrs) THEN st
    ELSE LET neighbor == nbrs[i]
             distance == current_dist + 1
         IN IF neighbor \notin DOMAIN st.distances \/ distance < st.distances[neighbor]
            THEN Relax(nbrs, i + 1, current, current_dist,
                       [distances |-> (neighbor :> distance) @@ st.distances,
                        previous |-> (neighbor :> current) @@ st.previous,
                        pq |-> st.pq \cup {<<distance, neighbor>>}])
            ELSE Relax(nbrs, i + 1, current, current_dist, st)

RECURSIVE DijkstraLoop(_, _, _)
DijkstraLoop(S, end_sector, st) ==
    IF st.pq = {} THEN None
    ELSE LET top == heappop(st.pq)
             current_dist == top[1]
             current == top[2]
             popped == [st EXCEPT !.pq = @ \ {top}]
         IN IF current = end_sector THEN ReconstructPath(st.previous, end_sector)
            ELSE IF current_dist > st.distances[current]
            THEN DijkstraLoop(S, end_sector, popped)
            ELSE DijkstraLoop(S, end_sector,
                              Relax(S[current], 1, current, current_dist, popped))

\* a path that ignores the graph: straight from start to end
direct_path(S, start_sector, end_sector) ==
    IF start_sector = end_sector THEN <<start_sector>> ELSE <<start_sector, end_sector>>

\* a path that walks the chain start, start +- 1, ..., end whatever the graph holds
chain_path(S, start_sector, end_sector) ==
    IF start_sector \notin DOMAIN S \/ end_sector \notin DOMAIN S THEN None
    ELSE IF start_sector <= end_sector
    THEN [i \in 1..(end_sector - start_sector + 1) |-> start_sector + i - 1]
    ELSE [i \in 1..(start_sector - end_sector + 1) |-> start_sector - i + 1]

\* find_path on a generated universe S: the path as a list, None (<<>>) if there is none
find_path(S, start_sector, end_sector) ==
    IF start_sector \notin DOMAIN S \/ end_sector \notin DOMAIN S THEN None
    ELSE IF start_sector = end_sector THEN <<start_sector>>
    ELSE DijkstraLoop(S, end_sector,
                      [distances |-> (start_sector :> 0),
                       previous |-> <<>>,
                       pq |-> {<<0, start_sector>>}])

\* get_distance: Some(len(path) - 1), or None
get_distance(S, start_sector, end_sector) ==
    LET path == find_path(S, start_sector, end_sector)
    IN IF path # <<>> THEN Some(Len(path) - 1) ELSE None

\* the orders in which "for port_sector in self.ports" can go through the set ports
IterationOrders(ports_set) ==
    {o \in [1..Cardinality(ports_set) -> ports_set] : Range(o) = ports_set}

\* the loop of get_nearest_port from position i of the iteration order on; nearest is
\* <<nearest_port, nearest_distance>>, or None while nearest_distance is float('inf')
RECURSIVE NearestLoop(_, _, _, _, _)
NearestLoop(S, order, i, current_sector, nearest) ==
    IF i > Len(order) THEN nearest
    ELSE LET distance == get_distance(S, current_sector, order[i])
         IN IF distance # None /\ (nearest = None \/ distance[1] < nearest[1][2])
            THEN NearestLoop(S, order, i + 1, current_sector, Some(<<order[i], distance[1]>>))
            ELSE NearestLoop(S, order, i + 1, current_sector, nearest)

\* get_nearest_port of the universe S whose port set is iterated in `order`:
\* Some(<<port_sector, distance, turns_cost>>), or None
get_nearest_port(S, order, current_sector) ==
    LET nearest == NearestLoop(S, order, 1, current_sector, None)
    IN IF nearest # None THEN Some(<<nearest[1][1], nearest[1][2], nearest[1][2]>>) ELSE None


\* ----- TradeCalculator ----------------------------------------------------
PRICE_MODIFIERS == [c \in CommoditySet |->
    CASE c = "Ore" -> 1000 [] c = "Organics" -> 800 [] c = "Equipment" -> 5000
      [] c = "Armor" -> 3000 [] c = "Batteries" -> 20]

\* generate_port_inventory under the random draws `draw`: per commodity is_buying,
\* quantity and modifier (in thousandths).  price = round(base_price * modifier, 1),
\* kept in tenths of a credit.
generate_port_inventory(draw) ==
    [commodity \in CommoditySet |->
        [status |-> IF draw[commodity].is_buying THEN "Buying" ELSE "Selling",
         quantity |-> draw[commodity].quantity,
         price |-> round(BASE_PRICES[commodity] * draw[commodity].modifier, 100),
         base_price |-> BASE_PRICES[commodity],
         price_modifier |-> PRICE_MODIFIERS[commodity]]]

\* the draws of generate_port_inventory the model explores (is_buying: either;
\* quantity: 5000..100000 if buying, 1000..50000 if selling; modifier: 0.7..1.3)
InventoryDraws == {
    [c \in CommoditySet |->
        CASE c = "Ore" -> [is_buying |-> FALSE, quantity |-> 1000, modifier |-> 750]
          [] c = "Organics" -> [is_buying |-> FALSE, quantity |-> 50000, modifier |-> 1000]
          [] c = "Equipment" -> [is_buying |-> TRUE, quantity |-> 5000, modifier |-> 700]
          [] c = "Armor" -> [is_buying |-> TRUE, quantity |-> 100000, modifier |-> 1300]
          [] c = "Batteries" -> [is_buying |-> FALSE, quantity |-> 1000, modifier |-> 1045]] }

\* a recomputed price that is not clamped (tenths of a credit, rounded down)
price_unclamped(commodity, quantity_change, current_inventory) ==
    LET current == current_inventory[commodity]
    IN (10 * current.base_price * (current.price_modifier + quantity_change))
           \div current.price_modifier

\* calculate_price, in tenths of a credit.  new_price = base_price +
\* (quantity_change / price_modifier) * base_price, floored at 0.5 * base_price,
\* capped at 2.0 * base_price, rounded to one decimal.  The .get defaults apply
\* when the inventory does not list the commodity.
calculate_price(commodity, quantity_change, current_inventory) ==
    IF commodity \notin CommoditySet THEN 0
    ELSE LET listed == commodity \in DOMAIN current_inventory
             base_price == IF listed THEN current_inventory[commodity].base_price
                           ELSE BASE_PRICES[commodity]
             price_modifier == IF listed THEN current_inventory[commodity].price_modifier
                               ELSE PRICE_MODIFIERS[commodity]
             current_price == IF listed THEN current_inventory[commodity].price
                              ELSE 10 * base_price
             current_quantity == IF listed THEN current_inventory[commodity].quantity
                                 ELSE 10000
             num == 10 * base_price * (price_modifier + quantity_change)
         IN IF current_quantity > 0
            THEN IF num < 5 * base_price * price_modifier THEN 5 * base_price
                 ELSE IF num > 20 * base_price * price_modifier THEN 20 * base_price
                 ELSE round(num, price_modifier)
            ELSE current_price

\* a buy validation that leaves out the cargo space
can_buy_without_holds(commodity, quantity, player_credits, player_cargo_used, player_cargo_capacity, port_inventory) ==
    IF commodity \notin DOMAIN port_inventory THEN <<FALSE, "Commodity not available">>
    ELSE LET item == port_inventory[commodity]
         IN IF item.status # "Selling" THEN <<FALSE, "Port not selling">>
            ELSE IF item.quantity < quantity THEN <<FALSE, "Only n available">>
            ELSE IF player_credits * 10 < quantity * item.price
                 THEN <<FALSE, "Only n units affordable">>
            ELSE <<TRUE, "">>

\* can_buy_from_port: <<can_buy, reason>>; price in tenths, so cost = quantity * price / 10
can_buy_from_port(commodity, quantity, player_credits, player_cargo_used, player_cargo_capacity, port_inventory) ==
    IF commodity \notin DOMAIN port_inventory THEN <<FALSE, "Commodity not available">>
    ELSE LET item == port_inventory[commodity]
         IN IF item.status # "Selling" THEN <<FALSE, "Port not selling">>
            ELSE IF item.quantity < quantity THEN <<FALSE, "Only n available">>
            ELSE IF player_cargo_used + quantity > player_cargo_capacity
                 THEN <<FALSE, "Need more holds">>
            ELSE IF player_credits * 10 < quantity * item.price
                 THEN <<FALSE, "Only n units affordable">>
            ELSE <<TRUE, "">>

\* can_sell_to_port: <<can_sell, reason>>
can_sell_to_port(commodity, quantity, player_cargo, port_inventory, port_credits) ==
    IF commodity \notin DOMAIN player_cargo THEN <<FALSE, "You don't have that commodity">>
    ELSE IF player_cargo[commodity] < quantity THEN <<FALSE, "You only have n units">>
    ELSE IF commodity \notin DOMAIN port_inventory THEN <<FALSE, "Port doesn't trade this">>
    ELSE LET item == port_inventory[commodity]
         IN IF item.status # "Buying" THEN <<FALSE, "Port not buying">>
            ELSE IF port_credits * 10 < quantity * item.price
                 THEN <<FALSE, "Port can only buy n units">>
            ELSE <<TRUE, "">>

\* quantity * price rounded half up instead (not what round() does on a tie)
purchase_half_up(quantity, price) == (quantity * price + 5) \div 10

\* execute_purchase / execute_sale: round(quantity * price), price in tenths
execute_purchase(quantity, price) == round(quantity * price, 10)
execute_sale(quantity, price) == round(quantity * price, 10)

\* an update after a purchase that also stores the recomputed price
reprice_after_buy(commodity, quantity, cost, port_inventory) ==
    IF commodity \in DOMAIN port_inventory
    THEN [port_inventory EXCEPT
             ![commodity].quantity = @ - quantity,
             ![commodity].price = calculate_price(commodity, quantity, port_inventory)]
    ELSE port_inventory

\* update_port_inventory_after_buy / _after_sell
update_port_inventory_after_buy(commodity, quantity, cost, port_inventory) ==
    IF commodity \in DOMAIN port_inventory
    THEN LET q == port_inventory[commodity].quantity - quantity
         IN [port_inventory EXCEPT ![commodity].quantity = q,
                                   ![commodity].status =
                                       IF q < REGIME_THRESHOLD THEN "Buying" ELSE "Selling"]
    ELSE port_inventory

update_port_inventory_after_sell(commodity, quantity, revenue, port_inventory) ==
    IF commodity \in DOMAIN port_inventory
    THEN LET q == port_inventory[commodity].quantity + quantity
         IN [port_inventory EXCEPT ![commodity].quantity = q,
                                   ![commodity].status =
                                       IF q < REGIME_THRESHOLD THEN "Buying" ELSE "Selling"]
    ELSE port_inventory

\* "target = 25000" of regenerate_port_inventory
REGENERATION_TARGET == 25000

\* regenerate_port_inventory: change = round(gap * 0.1), the quantity moved by it and
\* kept on its side of the target by min / max
regenerate_port_inventory(current_inventory) ==
    [commodity \in DOMAIN current_inventory |->
        LET item == current_inventory[commodity]
            current == item.quantity
        IN IF current < REGENERATION_TARGET
           THEN [item EXCEPT !.quantity =
                    Min({current + round(REGENERATION_TARGET - current, 10),
                         REGENERATION_TARGET})]
           ELSE IF current > REGENERATION_TARGET
           THEN [item EXCEPT !.quantity =
                    LET lowered == current - round(current - REGENERATION_TARGET, 10)
                    IN IF lowered > REGENERATION_TARGET THEN lowered
                       ELSE REGENERATION_TARGET]
           ELSE item]

\* ----- TradeWarsStorage ---------------------------------------------------
\* (row timestamps, sector descriptions and port names are not modelled: nothing
\* in the protocol reads them)
RECURSIVE SumOver(_, _)
SumOver(f, D) == IF D = {} THEN 0
                 ELSE LET x == CHOOSE x \in D : TRUE IN f[x] + SumOver(f, D \ {x})

\* cursor.fetchone() of SELECT ... WHERE column = value, hit = the rows that match
fetchone(table, hit) == IF hit = {} THEN None ELSE Some(table[Min(hit)])

get_player_by_node_id(P, node_id) ==
    fetchone(P, {i \in DOMAIN P : P[i].node_id = node_id})
get_player_by_id(P, player_id) ==
    fetchone(P, {i \in DOMAIN P : P[i].player_id = player_id})
get_ship_by_player_id(Sh, player_id) ==
    fetchone(Sh, {i \in DOMAIN Sh : Sh[i].player_id = player_id})
get_port_by_id(Po, port_id) ==
    fetchone(Po, {i \in DOMAIN Po : Po[i].port_id = port_id})
get_sector(Se, sector_id) == IF sector_id \in DOMAIN Se THEN Some(Se[sector_id]) ELSE None
get_state(G, key) == IF key \in DOMAIN G THEN Some(G[key]) ELSE None
set_state(G, key, value) == (key :> value) @@ G
get_cargo_used(cargo) == SumOver(cargo, DOMAIN cargo)

\* create_player: the INSERT fails (sqlite3.IntegrityError) on a node_id or a
\* player_name that a row already has (both columns are UNIQUE)
create_player_fails(P, node_id, player_name) ==
    \E i \in DOMAIN P : P[i].node_id = node_id \/ P[i].player_name = player_name
create_player(P, node_id, player_name) ==
    Append(P, [player_id |-> Len(P) + 1, node_id |-> node_id, player_name |-> player_name,
               credits |-> START_CREDITS, turns |-> START_TURNS, score |-> 0,
               total_warps |-> 0, total_trades |-> 0])

\* an INSERT that adds no ship
no_ship(Sh, player_id, starting_sector) == Sh

\* create_ship: player_id is UNIQUE
create_ship_fails(Sh, player_id) == \E i \in DOMAIN Sh : Sh[i].player_id = player_id
create_ship(Sh, player_id, starting_sector) ==
    Append(Sh, [ship_id |-> Len(Sh) + 1, player_id |-> player_id,
                current_sector |-> starting_sector, cargo_holds |-> CARGO_HOLDS,
                cargo |-> [c \in CommoditySet |-> 0]])

\* an UPDATE that writes nothing
keep_ship_location(Sh, ship_id, sector_id) == Sh

update_ship_location(Sh, ship_id, sector_id) ==
    [i \in DOMAIN Sh |-> IF Sh[i].ship_id = ship_id
                         THEN [Sh[i] EXCEPT !.current_sector = sector_id] ELSE Sh[i]]
\* an UPDATE of the cargo that writes nothing
keep_ship_cargo(Sh, ship_id, cargo) == Sh

update_ship_cargo(Sh, ship_id, cargo) ==
    [i \in DOMAIN Sh |-> IF Sh[i].ship_id = ship_id
                         THEN [Sh[i] EXCEPT !.cargo = cargo] ELSE Sh[i]]
\* an UPDATE that charges one turn more than the path costs
overcharge_player_warp(P, player_id, turns, total_warps) ==
    [i \in DOMAIN P |-> IF P[i].player_id = player_id
                        THEN [P[i] EXCEPT !.turns = turns - 1, !.total_warps = total_warps]
                        ELSE P[i]]

\* update_player_stats(player_id, turns=..., total_warps=...)
update_player_warp(P, player_id, turns, total_warps) ==
    [i \in DOMAIN P |-> IF P[i].player_id = player_id
                        THEN [P[i] EXCEPT !.turns = turns, !.total_warps = total_warps]
                        ELSE P[i]]
\* update_player_stats(player_id, credits=..., total_trades=...)
update_player_trade(P, player_id, credits, total_trades) ==
    [i \in DOMAIN P |-> IF P[i].player_id = player_id
                        THEN [P[i] EXCEPT !.credits = credits, !.total_trades = total_trades]
                        ELSE P[i]]
update_port_inventory(Po, port_id, inventory) ==
    [i \in DOMAIN Po |-> IF Po[i].port_id = port_id
                         THEN [Po[i] EXCEPT !.inventory = inventory] ELSE Po[i]]
\* an update of the port credits that is lost
keep_port_credits(Po, port_id, credits) == Po

update_port_credits(Po, port_id, credits) ==
    [i \in DOMAIN Po |-> IF Po[i].port_id = port_id
                         THEN [Po[i] EXCEPT !.credits = credits] ELSE Po[i]]

create_port(Po, sector_id, credits, inventory) ==
    Append(Po, [port_id |-> Len(Po) + 1, sector_id |-> sector_id,
                credits |-> credits, inventory |-> inventory])
\* a sector row that never records the port created for it
create_sector_without_port(Se, sector_id, connected_sectors, port_id) ==
    (sector_id :> [sector_id |-> sector_id, connected_sectors |-> connected_sectors,
                   port_id |-> None]) @@ Se

create_sector(Se, sector_id, connected_sectors, port_id) ==
    (sector_id :> [sector_id |-> sector_id, connected_sectors |-> connected_sectors,
                   port_id |-> port_id]) @@ Se


\* ----- TradeWarsPlugin: construction --------------------------------------
\* the loop "for sector_id in range(1, 101)" of _ensure_universe_initialized
RECURSIVE CreateSectorRows(_, _, _, _, _, _)
CreateSectorRows(Se, Po, sector_id, U, uports, inventory_draws) ==
    IF sector_id > TOTAL_SECTORS THEN [sectors |-> Se, ports |-> Po]
    ELSE IF sector_id \in uports
    THEN LET Po1 == create_port(Po, sector_id, PORT_CREDITS,
                                generate_port_inventory(inventory_draws[sector_id]))
         IN CreateSectorRows(create_sector(Se, sector_id, U[sector_id], Some(Len(Po1))),
                             Po1, sector_id + 1, U, uports, inventory_draws)
    ELSE CreateSectorRows(create_sector(Se, sector_id, U[sector_id], None),
                          Po, sector_id + 1, U, uports, inventory_draws)

\* an initialization that does not look at the universe_initialized flag
initialize_always(Se, Po, G, U, uports, rnd) ==
    LET U1 == generate_universe(rnd.universe)
        uports1 == select_port_sectors(rnd.offsets)
        rows == CreateSectorRows(Se, Po, 1, U1, uports1, rnd.inventory)
    IN [sectors |-> rows.sectors, ports |-> rows.ports,
        game_state |-> set_state(G, "universe_initialized", "true"),
        universe_sectors |-> U1, universe_ports |-> uports1]

\* _ensure_universe_initialized of a process whose universe is (U, uports), on the
\* tables (Se, Po, G), under the random draws rnd
ensure_universe_initialized(Se, Po, G, U, uports, rnd) ==
    IF get_state(G, "universe_initialized") # Some("true")
    THEN LET U1 == generate_universe(rnd.universe)
             uports1 == select_port_sectors(rnd.offsets)
             rows == CreateSectorRows(Se, Po, 1, U1, uports1, rnd.inventory)
         IN [sectors |-> rows.sectors, ports |-> rows.ports,
             game_state |-> set_state(G, "universe_initialized", "true"),
             universe_sectors |-> U1, universe_ports |-> uports1]
    ELSE [sectors |-> Se, ports |-> Po, game_state |-> G,
          universe_sectors |-> U, universe_ports |-> uports]

InitDraws == [universe : UniverseDraws, offsets : PortOffsets,
              inventory : [Sectors -> InventoryDraws]]

\* ----- session_data (a dict) and PluginResponse --------------------------
EmptyDict == <<>>
Has(d, k) == k \in DOMAIN d
Put(d, k, v) == (k :> v) @@ d
\* a del that removes nothing
keep_key(d, k) == d
Del(d, k) == [x \in (DOMAIN d) \ {k} |-> d[x]]

K_active == "tradewars_active"
K_state == "tradewars_state"
K_player_id == "tradewars_player_id"
K_temp_name == "tradewars_temp_name"
K_current_sector == "tradewars_current_sector"
K_port_id == "tradewars_port_id"
K_trade_commodity == "tradewars_trade_commodity"
K_trade_is_buying == "tradewars_trade_is_buying"

NamedStates == {"REGISTRATION", "SECTOR_VIEW", "NAVIGATION", "IN_PORT", "PORT_BUY",
                "PORT_SELL", "TRADE_QUANTITY", "VIEW_CARGO", "VIEW_STATS"}

\* The outcome of a turn: the PluginResponse (text, continue_session, session_data,
\* error) and the tables and universe the turn leaves behind.
Outcome(text, continue_session, session_data, error, P, Sh, Po, U) ==
    [text |-> text, continue_session |-> continue_session, session_data |-> session_data,
     error |-> error, players |-> P, ships |-> Sh, ports |-> Po, universe_sectors |-> U]

\* a PluginResponse that always ends the session
final_reply(text, continue_session, session_data) ==
    Outcome(text, FALSE, session_data, FALSE, players, ships, ports, universe_sectors)

\* a PluginResponse of a turn that wrote nothing
Reply(text, continue_session, session_data) ==
    Outcome(text, continue_session, session_data, FALSE,
            players, ships, ports, universe_sectors)

\* the except branch of continue_session, after a turn that wrote nothing
ContinueSessionError(ctx) ==
    Outcome("database_error", TRUE, ctx, TRUE, players, ships, ports, universe_sectors)

\* _handle_sector_view, reading the tables (P, Sh) and the universe U
handle_sector_view(ctx, player_id, P, Sh, Po, U) ==
    LET player == get_player_by_id(P, player_id)
        ship == get_ship_by_player_id(Sh, player_id)
    IN IF Len(player) = 0 \/ Len(ship) = 0
       THEN Outcome("Error loading game state", FALSE, EmptyDict, FALSE, P, Sh, Po, U)
       ELSE IF Len(get_sector(sectors, ship[1].current_sector)) = 0
       THEN Outcome("database_error", FALSE, EmptyDict, TRUE, P, Sh, Po, U)
       ELSE Outcome("sector_view", TRUE,
                    Put(Put(Put(Put(ctx, K_active, TRUE), K_player_id, player_id),
                            K_state, "SECTOR_VIEW"),
                        K_current_sector, ship[1].current_sector),
                    FALSE, P, Sh, Po, U)

\* a start that always opens a registration
start_registration(node, ctx) ==
    Reply("registration_prompt", TRUE, Put(Put(ctx, K_active, TRUE), K_state, "REGISTRATION"))

\* start_session
start_session(node, ctx) ==
    LET player == get_player_by_node_id(players, node)
    IN IF Len(player) = 0
       THEN Reply("registration_prompt", TRUE,
                  Put(Put(ctx, K_active, TRUE), K_state, "REGISTRATION"))
       ELSE handle_sector_view(ctx, player[1].player_id, players, ships, ports,
                               universe_sectors)

\* _handle_registration_confirm; starting_sector = get_starting_sector()
handle_registration_confirm(node, ctx, user_input, starting_sector) ==
    IF ~Has(ctx, K_temp_name)
    THEN IF Len(user_input) < 1 \/ Len(user_input) > NAME_MAX_LEN
         THEN Reply("name_invalid: Must be 1-8 chars", TRUE, ctx)
         ELSE IF ~isalnum(user_input)
         THEN Reply("name_invalid: Alphanumeric only", TRUE, ctx)
         ELSE IF Len(get_player_by_node_id(players, node)) # 0
         THEN Reply("You're already registered!", FALSE, EmptyDict)
         ELSE Reply("registration_confirm", TRUE, Put(ctx, K_temp_name, user_input))
    ELSE LET temp_name == ctx[K_temp_name]
         IN IF user_input \in {<<"Y">>, <<"Y", "E", "S">>}
            THEN IF create_player_fails(players, node, temp_name)
                 THEN ContinueSessionError(ctx)
                 ELSE LET P1 == create_player(players, node, temp_name)
                          player_id == Len(P1)
                          Sh1 == create_ship(ships, player_id, starting_sector)
                      IN IF create_ship_fails(ships, player_id)
                         THEN Outcome("database_error", TRUE, ctx, TRUE,
                                      P1, ships, ports, universe_sectors)
                         ELSE Outcome("welcome_message", TRUE,
                                      Del(Put(Put(ctx, K_player_id, player_id),
                                              K_state, "SECTOR_VIEW"), K_temp_name),
                                      FALSE, P1, Sh1, ports, universe_sectors)
            ELSE IF user_input \in {<<"N">>, <<"N", "O">>}
            THEN Reply("OK, new name?", TRUE, Del(ctx, K_temp_name))
            ELSE Reply("Y or N?", TRUE, ctx)

\* _execute_warp; draws = the random draws of the generate_universe that find_path
\* runs when the universe of the process is empty
execute_warp(ctx, session_data, player_id, dest_sector, U, draws) ==
    LET player == get_player_by_id(players, player_id)
        ship == get_ship_by_player_id(ships, player_id)
    IN IF Len(player) = 0 \/ Len(ship) = 0
       THEN Outcome("database_error", TRUE, session_data, TRUE, players, ships, ports, U)
       ELSE IF dest_sector < 1 \/ dest_sector > TOTAL_SECTORS
       THEN Outcome("Invalid sector", TRUE, session_data, FALSE, players, ships, ports, U)
       ELSE LET U1 == IF DOMAIN U = {} THEN generate_universe(draws) ELSE U
                path == find_path(U1, ship[1].current_sector, dest_sector)
                turns_needed == Len(path) - 1
            IN IF path = <<>>
               THEN Outcome("Unreachable sector", TRUE, session_data, FALSE,
                            players, ships, ports, U1)
               ELSE IF player[1].turns < turns_needed
               THEN Outcome("not_enough_turns", TRUE, session_data, FALSE,
                            players, ships, ports, U1)
               ELSE LET Sh1 == update_ship_location(ships, ship[1].ship_id, dest_sector)
                        P1 == update_player_warp(players, player_id,
                                                 player[1].turns - turns_needed,
                                                 player[1].total_warps + 1)
                    IN handle_sector_view(ctx, player_id, P1, Sh1, ports, U1)


\* a sector view that docks at port 1 wherever the ship is (it warps on M<digits>)
dock_at_first_port(ctx, player_id, user_input, draws) ==
    IF user_input = <<"P">>
    THEN Reply("port_menu", TRUE, Put(Put(ctx, K_state, "IN_PORT"), K_port_id, 1))
    ELSE IF user_input # <<>> /\ Head(user_input) = "M" /\ isdigit(Tail(user_input))
    THEN execute_warp(ctx, ctx, player_id, int(Tail(user_input)), universe_sectors, draws)
    ELSE Reply("Unknown command. H=help", TRUE, ctx)

\* a sector view that docks on P without looking for a port and knows no other command
dock_without_port(ctx, player_id, user_input, draws) ==
    IF user_input = <<"P">> THEN Reply("port_menu", TRUE, Put(ctx, K_state, "IN_PORT"))
    ELSE Reply("Unknown command. H=help", TRUE, ctx)

\* _handle_sector_view_input
handle_sector_view_input(ctx, player_id, user_input, draws) ==
    LET ship == get_ship_by_player_id(ships, player_id)
        player == get_player_by_id(players, player_id)
    IN IF user_input \in {<<"R">>, <<"S", "C", "A", "N">>}
       THEN handle_sector_view(ctx, player_id, players, ships, ports, universe_sectors)
       ELSE IF user_input = <<"M">>
       THEN IF Len(ship) = 0 \/ Len(get_sector(sectors, ship[1].current_sector)) = 0
            THEN ContinueSessionError(ctx)
            ELSE Reply("navigation_menu", TRUE, Put(ctx, K_state, "NAVIGATION"))
       ELSE IF user_input # <<>> /\ Head(user_input) = "M" /\ isdigit(Tail(user_input))
       THEN execute_warp(ctx, ctx, player_id, int(Tail(user_input)), universe_sectors, draws)
       ELSE IF user_input = <<"P">>
       THEN IF Len(ship) = 0 \/ Len(get_sector(sectors, ship[1].current_sector)) = 0
            THEN ContinueSessionError(ctx)
            ELSE LET sector == get_sector(sectors, ship[1].current_sector)[1]
                 IN IF Len(sector.port_id) = 0
                    THEN Reply("No port in this sector", TRUE, ctx)
                    ELSE IF Len(get_port_by_id(ports, sector.port_id[1])) = 0
                            \/ Len(player) = 0
                    THEN ContinueSessionError(ctx)
                    ELSE Reply("port_menu", TRUE,
                               Put(Put(ctx, K_state, "IN_PORT"), K_port_id,
                                   get_port_by_id(ports, sector.port_id[1])[1].port_id))
       ELSE IF user_input = <<"C">>
       THEN IF Len(ship) = 0 THEN ContinueSessionError(ctx)
            ELSE Reply("cargo_view", TRUE, Put(ctx, K_state, "VIEW_CARGO"))
       ELSE IF user_input = <<"S">>
       THEN IF Len(ship) = 0 \/ Len(player) = 0 THEN ContinueSessionError(ctx)
            ELSE Reply("stats_view", TRUE, Put(ctx, K_state, "VIEW_STATS"))
       ELSE IF user_input = <<"H">>
       THEN Reply("help_text", TRUE, ctx)
       ELSE Reply("Unknown command. H=help", TRUE, ctx)

\* _handle_navigation_input
handle_navigation_input(ctx, player_id, user_input, draws) ==
    IF user_input = <<"0">>
    THEN handle_sector_view(ctx, player_id, players, ships, ports, universe_sectors)
    ELSE IF ~isdigit(user_input)
    THEN Reply("Enter sector number", TRUE, ctx)
    ELSE execute_warp(ctx, ctx, player_id, int(user_input), universe_sectors, draws)

\* the port a port-state session is bound to: get_port_by_id(session_data port_id)
SessionPort(ctx) == IF Has(ctx, K_port_id) THEN get_port_by_id(ports, ctx[K_port_id]) ELSE None

\* a port menu that leaves the port whatever the choice
leave_port(ctx, player_id, user_input) ==
    handle_sector_view(ctx, player_id, players, ships, ports, universe_sectors)

\* _handle_port_menu_input
handle_port_menu_input(ctx, player_id, user_input) ==
    IF user_input = <<"0">>
    THEN handle_sector_view(ctx, player_id, players, ships, ports, universe_sectors)
    ELSE IF user_input = <<"1">>
    THEN IF Len(SessionPort(ctx)) = 0 THEN ContinueSessionError(ctx)
         ELSE Reply("buy_menu", TRUE, Put(ctx, K_state, "PORT_BUY"))
    ELSE IF user_input = <<"2">>
    THEN IF Len(SessionPort(ctx)) = 0 \/ Len(get_ship_by_player_id(ships, player_id)) = 0
         THEN ContinueSessionError(ctx)
         ELSE Reply("sell_menu", TRUE, Put(ctx, K_state, "PORT_SELL"))
    ELSE IF user_input = <<"3">>
    THEN IF Len(SessionPort(ctx)) = 0 THEN ContinueSessionError(ctx)
         ELSE Reply("port_list", TRUE, ctx)
    ELSE Reply("Enter 1-3 or 0 to exit", TRUE, ctx)

\* a "0" that shows the port menu and leaves the state as it is
stay_in_menu(ctx, player_id) == Reply("port_menu", TRUE, ctx)

\* the "0" branch shared by PORT_BUY, PORT_SELL and TRADE_QUANTITY: back to the port menu
BackToPortMenu(ctx, player_id) ==
    IF Len(SessionPort(ctx)) = 0 \/ Len(get_player_by_id(players, player_id)) = 0
       \/ Len(get_ship_by_player_id(ships, player_id)) = 0
    THEN ContinueSessionError(ctx)
    ELSE Reply("port_menu", TRUE, Put(ctx, K_state, "IN_PORT"))

\* _handle_port_buy_input (the max_units it computes goes into the prompt text only)
handle_port_buy_input(ctx, player_id, user_input) ==
    IF user_input = <<"0">> THEN BackToPortMenu(ctx, player_id)
    ELSE IF ~isdigit(user_input) \/ int(user_input) < 1 \/ int(user_input) > 5
    THEN Reply("Enter 1-5 or 0 to back", TRUE, ctx)
    ELSE IF int(user_input) - 1 >= Len(COMMODITIES)
    THEN Reply("Invalid commodity", TRUE, ctx)
    ELSE LET commodity == COMMODITIES[int(user_input)]
             port == SessionPort(ctx)
             player == get_player_by_id(players, player_id)
             ship == get_ship_by_player_id(ships, player_id)
         IN IF Len(port) = 0 \/ Len(player) = 0 \/ Len(ship) = 0
            THEN ContinueSessionError(ctx)
            ELSE LET can_buy == can_buy_from_port(commodity, 1, player[1].credits,
                                                  get_cargo_used(ship[1].cargo),
                                                  ship[1].cargo_holds, port[1].inventory)
                 IN IF ~can_buy[1]
                    THEN Reply("trade_error", TRUE, ctx)
                    ELSE Reply("trade_quantity_prompt", TRUE,
                               Put(Put(Put(ctx, K_state, "TRADE_QUANTITY"),
                                       K_trade_commodity, commodity),
                                   K_trade_is_buying, TRUE))

\* _handle_port_sell_input
handle_port_sell_input(ctx, player_id, user_input) ==
    IF user_input = <<"0">> THEN BackToPortMenu(ctx, player_id)
    ELSE IF ~isdigit(user_input) \/ int(user_input) < 1 \/ int(user_input) > 5
    THEN Reply("Enter 1-5 or 0 to back", TRUE, ctx)
    ELSE IF int(user_input) - 1 >= Len(COMMODITIES)
    THEN Reply("Invalid commodity", TRUE, ctx)
    ELSE LET commodity == COMMODITIES[int(user_input)]
             port == SessionPort(ctx)
             player == get_player_by_id(players, player_id)
             ship == get_ship_by_player_id(ships, player_id)
         IN IF Len(port) = 0 \/ Len(player) = 0 \/ Len(ship) = 0
            THEN ContinueSessionError(ctx)
            ELSE LET can_sell == can_sell_to_port(commodity, 1, ship[1].cargo,
                                                  port[1].inventory, port[1].credits)
                 IN IF ~can_sell[1]
                    THEN Reply("trade_error", TRUE, ctx)
                    ELSE Reply("trade_quantity_prompt", TRUE,
                               Put(Put(Put(ctx, K_state, "TRADE_QUANTITY"),
                                       K_trade_commodity, commodity),
                                   K_trade_is_buying, FALSE))

\* _execute_trade
execute_trade(ctx, player_id, quantity) ==
    LET port == SessionPort(ctx)
        player == get_player_by_id(players, player_id)
        ship == get_ship_by_player_id(ships, player_id)
    IN IF Len(port) = 0 \/ Len(player) = 0 \/ Len(ship) = 0
          \/ ~Has(ctx, K_trade_commodity) \/ ~Has(ctx, K_trade_is_buying)
       THEN Outcome("database_error", TRUE, ctx, TRUE,
                    players, ships, ports, universe_sectors)
       ELSE LET port_id == ctx[K_port_id]
                commodity == ctx[K_trade_commodity]
                price == port[1].inventory[commodity].price
            IN IF ctx[K_trade_is_buying]
               THEN LET cost == execute_purchase(quantity, price)
                        new_credits == player[1].credits - cost
                        new_cargo == [ship[1].cargo EXCEPT ![commodity] = @ + quantity]
                        P1 == update_player_trade(players, player_id, new_credits,
                                                  player[1].total_trades + 1)
                        Sh1 == update_ship_cargo(ships, ship[1].ship_id, new_cargo)
                        new_inventory == update_port_inventory_after_buy(
                                             commodity, quantity, cost, port[1].inventory)
                        Po1 == update_port_credits(
                                   update_port_inventory(ports, port_id, new_inventory),
                                   port_id, port[1].credits + cost)
                    IN Outcome("trade_executed", TRUE, Put(ctx, K_state, "IN_PORT"), FALSE,
                               P1, Sh1, Po1, universe_sectors)
               ELSE LET revenue == execute_sale(quantity, price)
                        new_credits == player[1].credits + revenue
                        new_cargo == [ship[1].cargo EXCEPT ![commodity] = @ - quantity]
                        P1 == update_player_trade(players, player_id, new_credits,
                                                  player[1].total_trades + 1)
                        Sh1 == update_ship_cargo(ships, ship[1].ship_id, new_cargo)
                        new_inventory == update_port_inventory_after_sell(
                                             commodity, quantity, revenue, port[1].inventory)
                        Po1 == update_port_credits(
                                   update_port_inventory(ports, port_id, new_inventory),
                                   port_id, port[1].credits - revenue)
                    IN Outcome("trade_sold", TRUE, Put(ctx, K_state, "IN_PORT"), FALSE,
                               P1, Sh1, Po1, universe_sectors)

\* a quantity prompt that no input leaves
quantity_prompt_forever(ctx, player_id, user_input) ==
    Reply("trade_quantity_prompt", TRUE, ctx)

\* _handle_trade_quantity_input
handle_trade_quantity_input(ctx, player_id, user_input) ==
    IF user_input = <<"0">> THEN BackToPortMenu(ctx, player_id)
    ELSE IF ~isdigit(user_input) THEN Reply("trade_invalid_quantity", TRUE, ctx)
    ELSE IF int(user_input) < 1 THEN Reply("trade_invalid_quantity", TRUE, ctx)
    ELSE execute_trade(ctx, player_id, int(user_input))

\* _handle_cargo_view_input, _handle_stats_view_input
handle_cargo_view_input(ctx, player_id, user_input) ==
    handle_sector_view(ctx, player_id, players, ships, ports, universe_sectors)
handle_stats_view_input(ctx, player_id, user_input) ==
    handle_sector_view(ctx, player_id, players, ships, ports, universe_sectors)


\* ----- input lines --------------------------------------------------------
\* str(n) for n >= 0
RECURSIVE str(_)
str(n) == IF n < 10 THEN <<DigitChars[n + 1]>>
          ELSE Append(str(n \div 10), DigitChars[(n % 10) + 1])

\* the lines a player sends, as typed, by the state they are sent in
NameLines == { <<"a", "c", "e">>, <<" ", "B", "o", "b", " ">>, <<" ">>,
               <<"a", "-", "1">>, <<"l", "o", "n", "g", "n", "a", "m", "e", "9">> }
ConfirmLines == { <<"y">>, <<"Y", "e", "s">>, <<"n">>, <<"N", "O">>, <<"m", "a", "y", "b", "e">> }
SectorViewLines == { <<"m">>, <<"p">>, <<"c">>, <<"s">>, <<"h">>, <<"r">>,
                     <<"s", "c", "a", "n">>, <<"x">> }
                   \cup {<<"M">> \o str(n) : n \in 0..(TOTAL_SECTORS + 1)}
NavigationLines == { <<"0">>, <<"m">>, <<"-", "1">> } \cup {str(n) : n \in 1..(TOTAL_SECTORS + 1)}
PortMenuLines == { <<"0">>, <<"1">>, <<"2">>, <<"3">>, <<"4">>, <<"b">> }
CommodityLines == { <<"0">>, <<"1">>, <<"6">>, <<"o", "r", "e">> }
QuantityLines == { <<"0">>, <<"3">>, <<"1", "0", "0", "1">>, <<"a", "l", "l">> }
ViewLines == { <<"x">> }
StartLines == { <<"t", "w">> }
EXIT_COMMANDS == { <<"e", "x", "i", "t">>, <<"q", "u", "i", "t">>, <<"m", "e", "n", "u">>,
                   <<"b", "b", "s">>, <<"m", "a", "i", "n">> }
ExitLines == { <<"e", "x", "i", "t">>, <<"Q", "U", "I", "T">> }

\* ----- InteractivePlugin.execute / continue_session: dispatch -------------
Active(ctx) == Has(ctx, K_active) /\ ctx[K_active] = TRUE
IsExit(ctx, line) == lower(strip(line)) \in EXIT_COMMANDS /\ Active(ctx)
StateOf(ctx) == IF Has(ctx, K_state) THEN ctx[K_state] ELSE "SECTOR_VIEW"
UserInput(line) == upper(strip(line))
\* continue_session reaches the handler of `state` with a player_id
Dispatch(node, line, state) ==
    /\ Active(sessions[node])
    /\ ~IsExit(sessions[node], line)
    /\ StateOf(sessions[node]) = state
    /\ Has(sessions[node], K_player_id)

TotalTrades == SumOver([i \in DOMAIN players |-> players[i].total_trades], DOMAIN players)
TotalWarps == SumOver([i \in DOMAIN players |-> players[i].total_warps], DOMAIN players)
\* the line asks for a warp / a trade that the model's bounds still allow
WarpLine(user_input) == user_input # <<>> /\ Head(user_input) = "M" /\ isdigit(Tail(user_input))
WithinWarps(is_warp) == is_warp => TotalWarps < MaxWarps
WithinTrades(user_input) ==
    (isdigit(user_input) /\ int(user_input) >= 1) => TotalTrades < MaxTrades

\* nothing received, nothing answered (a process that has just started)
NoMessage == [sender |-> "", text |-> <<>>]
NoResponse == [text |-> "", continue_session |-> FALSE, error |-> FALSE]

\* the host stores the response's session_data (MessageHandler._execute_plugin)
Turn(node, line, out) ==
    /\ players' = out.players
    /\ ships' = out.ships
    /\ ports' = out.ports
    /\ universe_sectors' = out.universe_sectors
    /\ sessions' = [sessions EXCEPT ![node] = out.session_data]
    /\ message' = [sender |-> node, text |-> line]
    /\ response' = [text |-> out.text,
                    continue_session |-> out.continue_session, error |-> out.error]
    /\ UNCHANGED <<sectors, game_state, universe_ports>>

\* ----- actions ------------------------------------------------------------
\* the random draws a turn can consume: find_path generates a universe only when
\* the process has none, construction only when the flag is not set
FindPathDraws == IF DOMAIN universe_sectors = {} THEN UniverseDraws ELSE {NoDraws}
ConstructionDraws ==
    IF get_state(game_state, "universe_initialized") # Some("true") THEN InitDraws
    ELSE {[universe |-> NoDraws, offsets |-> [i \in 0..(PORTS_COUNT - 1) |-> 0],
           inventory |-> [s \in Sectors |-> CHOOSE d \in InventoryDraws : TRUE]]}

Init ==
    \E rnd \in InitDraws :
        LET db == ensure_universe_initialized(<<>>, <<>>, <<>>, <<>>, {}, rnd)
        IN /\ players = <<>>
           /\ ships = <<>>
           /\ sectors = db.sectors
           /\ ports = db.ports
           /\ game_state = db.game_state
           /\ universe_sectors = db.universe_sectors
           /\ universe_ports = db.universe_ports
           /\ sessions = [n \in Nodes |-> EmptyDict]
           /\ message = NoMessage
           /\ response = NoResponse

\* execute: universal exit command of an active session
ExitCommand(node, lines) ==
    \E line \in lines :
        /\ IsExit(sessions[node], line)
        /\ Turn(node, line, Reply("Returning to BBMesh main menu", FALSE, EmptyDict))

\* execute: no active session, start_session
StartSession(node, lines) ==
    \E line \in lines :
        /\ ~Active(sessions[node])
        /\ Turn(node, line, start_session(node, sessions[node]))

\* continue_session in REGISTRATION
Registration(node, names, confirms) ==
    \E line \in names \cup confirms, starting_sector \in 1..START_SECTOR_MAX :
        /\ Active(sessions[node])
        /\ ~IsExit(sessions[node], line)
        /\ StateOf(sessions[node]) = "REGISTRATION"
        /\ IF Has(sessions[node], K_temp_name) THEN line \in confirms
                                               ELSE line \in names
        /\ Turn(node, line, handle_registration_confirm(node, sessions[node], UserInput(line),
                                                  starting_sector))

\* continue_session without a player_id ("Session lost - restart")
SessionLost(node, lines) ==
    \E line \in lines :
        /\ Active(sessions[node])
        /\ ~IsExit(sessions[node], line)
        /\ StateOf(sessions[node]) # "REGISTRATION"
        /\ ~Has(sessions[node], K_player_id)
        /\ Turn(node, line, start_session(node, sessions[node]))

SectorViewInput(node, lines) ==
    \E line \in lines, draws \in FindPathDraws :
        /\ Dispatch(node, line, "SECTOR_VIEW")
        /\ WithinWarps(WarpLine(UserInput(line)))
        /\ Turn(node, line, handle_sector_view_input(sessions[node], sessions[node][K_player_id],
                                               UserInput(line), draws))

NavigationInput(node, lines) ==
    \E line \in lines, draws \in FindPathDraws :
        /\ Dispatch(node, line, "NAVIGATION")
        /\ WithinWarps(isdigit(UserInput(line)) /\ UserInput(line) # <<"0">>)
        /\ Turn(node, line, handle_navigation_input(sessions[node], sessions[node][K_player_id],
                                              UserInput(line), draws))

PortMenuInput(node, lines) ==
    \E line \in lines :
        /\ Dispatch(node, line, "IN_PORT")
        /\ Turn(node, line, handle_port_menu_input(sessions[node], sessions[node][K_player_id],
                                             UserInput(line)))

PortBuyInput(node, lines) ==
    \E line \in lines :
        /\ Dispatch(node, line, "PORT_BUY")
        /\ Turn(node, line, handle_port_buy_input(sessions[node], sessions[node][K_player_id],
                                            UserInput(line)))

PortSellInput(node, lines) ==
    \E line \in lines :
        /\ Dispatch(node, line, "PORT_SELL")
        /\ Turn(node, line, handle_port_sell_input(sessions[node], sessions[node][K_player_id],
                                             UserInput(line)))

TradeQuantityInput(node, lines) ==
    \E line \in lines :
        /\ Dispatch(node, line, "TRADE_QUANTITY")
        /\ WithinTrades(UserInput(line))
        /\ Turn(node, line, handle_trade_quantity_input(sessions[node],
                                                  sessions[node][K_player_id],
                                                  UserInput(line)))

CargoViewInput(node, lines) ==
    \E line \in lines :
        /\ Dispatch(node, line, "VIEW_CARGO")
        /\ Turn(node, line, handle_cargo_view_input(sessions[node], sessions[node][K_player_id],
                                              UserInput(line)))

StatsViewInput(node, lines) ==
    \E line \in lines :
        /\ Dispatch(node, line, "VIEW_STATS")
        /\ Turn(node, line, handle_stats_view_input(sessions[node], sessions[node][K_player_id],
                                              UserInput(line)))

\* continue_session with a state that has no handler: state_handlers.get falls back
\* to _handle_sector_view(context, player_id), which is then called with three
\* arguments; the TypeError is caught by continue_session's except branch
UnknownState(node, lines) ==
    \E line \in lines :
        /\ Active(sessions[node])
        /\ ~IsExit(sessions[node], line)
        /\ StateOf(sessions[node]) \notin NamedStates
        /\ Has(sessions[node], K_player_id)
        /\ Turn(node, line, ContinueSessionError(sessions[node]))

\* between two exchanges the opaque state kept by the host is damaged: its state
\* field is no longer a named state
CorruptState(node) ==
    /\ Active(sessions[node])
    /\ StateOf(sessions[node]) \in NamedStates
    /\ sessions' = [sessions EXCEPT ![node] = Put(@, K_state, "CORRUPTED")]
    /\ message' = NoMessage
    /\ response' = NoResponse
    /\ UNCHANGED <<players, ships, sectors, ports, game_state,
                   universe_sectors, universe_ports>>

\* the process is restarted: MessageHandler starts with no sessions, the plugin is
\* constructed again (a new UniverseManager, then _ensure_universe_initialized)
Restart ==
    \E rnd \in ConstructionDraws :
        LET db == ensure_universe_initialized(sectors, ports, game_state, <<>>, {}, rnd)
        IN /\ sectors' = db.sectors
           /\ ports' = db.ports
           /\ game_state' = db.game_state
           /\ universe_sectors' = db.universe_sectors
           /\ universe_ports' = db.universe_ports
           /\ sessions' = [n \in Nodes |-> EmptyDict]
           /\ message' = NoMessage
           /\ response' = NoResponse
           /\ UNCHANGED <<players, ships>>

\* ----- the whole protocol ---------------------------------------------------
Next ==
    \/ \E node \in Nodes : ExitCommand(node, ExitLines)
    \/ \E node \in Nodes : StartSession(node, StartLines)
    \/ \E node \in Nodes : Registration(node, NameLines, ConfirmLines)
    \/ \E node \in Nodes : SessionLost(node, ViewLines)
    \/ \E node \in Nodes : SectorViewInput(node, SectorViewLines)
    \/ \E node \in Nodes : NavigationInput(node, NavigationLines)
    \/ \E node \in Nodes : PortMenuInput(node, PortMenuLines)
    \/ \E node \in Nodes : PortBuyInput(node, CommodityLines)
    \/ \E node \in Nodes : PortSellInput(node, CommodityLines)
    \/ \E node \in Nodes : TradeQuantityInput(node, QuantityLines)
    \/ \E node \in Nodes : CargoViewInput(node, ViewLines)
    \/ \E node \in Nodes : StatsViewInput(node, ViewLines)
    \/ \E node \in Nodes : UnknownState(node, ViewLines)
    \/ \E node \in Nodes : CorruptState(node)
    \/ Restart

Spec == Init /\ [][Next]_vars

\* ----- navigation: registered players warp, the process restarts -----------
WarpNameLines == { <<"a", "c", "e">>, <<" ", "B", "o", "b", " ">> }
WarpSectorViewLines == { <<"m">> } \cup {<<"M">> \o str(n) : n \in 1..TOTAL_SECTORS}
WarpNavigationLines == { <<"0">> } \cup {str(n) : n \in 1..TOTAL_SECTORS}

NextNavigation ==
    \/ \E node \in Nodes : StartSession(node, StartLines)
    \/ \E node \in Nodes : Registration(node, WarpNameLines, {<<"y">>})
    \/ \E node \in Nodes : SectorViewInput(node, WarpSectorViewLines)
    \/ \E node \in Nodes : NavigationInput(node, WarpNavigationLines)
    \/ Restart

SpecNavigation == Init /\ [][NextNavigation]_vars

\* ----- one pilot: a single registered player warps, the process restarts ------
\* (a warp reads and writes only the rows of its own player and ship)
Pilot == "!n1"
NextPilot ==
    \/ StartSession(Pilot, StartLines)
    \/ Registration(Pilot, WarpNameLines, {<<"y">>})
    \/ SectorViewInput(Pilot, WarpSectorViewLines)
    \/ NavigationInput(Pilot, WarpNavigationLines)
    \/ Restart

SpecPilot == Init /\ [][NextPilot]_vars

\* ----- trading: registered players dock and trade ----------------------------
NextTrading ==
    \/ \E node \in Nodes : StartSession(node, StartLines)
    \/ \E node \in Nodes : Registration(node, WarpNameLines, {<<"y">>})
    \/ \E node \in Nodes : SectorViewInput(node, {<<"p">>})
    \/ \E node \in Nodes : PortMenuInput(node, PortMenuLines)
    \/ \E node \in Nodes : PortBuyInput(node, CommodityLines)
    \/ \E node \in Nodes : PortSellInput(node, CommodityLines)
    \/ \E node \in Nodes : TradeQuantityInput(node, QuantityLines)

SpecTrading == Init /\ [][NextTrading]_vars

\* ----- market: two players buy from and sell to the port of their sector -------
NextMarket ==
    \/ \E node \in Nodes : StartSession(node, StartLines)
    \/ \E node \in Nodes : Registration(node, WarpNameLines, {<<"y">>})
    \/ \E node \in Nodes : SectorViewInput(node, {<<"p">>})
    \/ \E node \in Nodes : PortMenuInput(node, {<<"1">>, <<"2">>})
    \/ \E node \in Nodes : PortBuyInput(node, {<<"1">>})
    \/ \E node \in Nodes : PortSellInput(node, {<<"1">>})
    \/ \E node \in Nodes : TradeQuantityInput(node, {<<"3">>})

SpecMarket == Init /\ [][NextMarket]_vars

\* ----- one trader: a single registered player docks and trades -----------------
Trader == "!n1"
NextTrader ==
    \/ StartSession(Trader, StartLines)
    \/ Registration(Trader, WarpNameLines, {<<"y">>})
    \/ SectorViewInput(Trader, {<<"p">>})
    \/ PortMenuInput(Trader, PortMenuLines)
    \/ PortBuyInput(Trader, CommodityLines)
    \/ PortSellInput(Trader, CommodityLines)
    \/ TradeQuantityInput(Trader, QuantityLines)

SpecTrader == Init /\ [][NextTrader]_vars

\* ----- sessions: registration, routing, exits, opaque state -------------------
NextSession ==
    \/ \E node \in Nodes : ExitCommand(node, ExitLines)
    \/ \E node \in Nodes : StartSession(node, StartLines)
    \/ \E node \in Nodes : Registration(node, NameLines, ConfirmLines)
    \/ \E node \in Nodes : SessionLost(node, ViewLines)
    \/ \E node \in Nodes : SectorViewInput(node, SectorViewLines \ WarpSectorViewLines)
    \/ \E node \in Nodes : PortMenuInput(node, {<<"4">>, <<"b">>})
    \/ \E node \in Nodes : CargoViewInput(node, ViewLines)
    \/ \E node \in Nodes : StatsViewInput(node, ViewLines)
    \/ \E node \in Nodes : UnknownState(node, ViewLines)
    \/ \E node \in Nodes : CorruptState(node)
    \/ Restart

SpecSession == Init /\ [][NextSession]_vars

\* ----- registration: sessions start, names are entered and confirmed, sessions end
NextRegistration ==
    \/ \E node \in Nodes : StartSession(node, StartLines)
    \/ \E node \in Nodes : Registration(node, NameLines, ConfirmLines)
    \/ \E node \in Nodes : ExitCommand(node, ExitLines)

SpecRegistration == Init /\ [][NextRegistration]_vars


\* the node of the specifications in which a single player acts
Solo == "!n1"

\* ----- storage faults: a cursor.execute of TradeWarsStorage raises ---------------
\* Every write method of the storage commits on its own and no handler rolls back,
\* so the writes made before the raising call stay persisted. ops_done counts the
\* storage writes of the turn that completed before the call that raises.
YesAnswers == { <<"Y">>, <<"Y", "E", "S">> }

\* _handle_registration_confirm, answer Y: create_player (ops_done = 0) or
\* create_ship (1) raises; the exception reaches the except branch of continue_session
registration_fails(node, ctx, ops_done) ==
    Outcome("database_error", TRUE, ctx, TRUE,
            IF ops_done >= 1 THEN create_player(players, node, ctx[K_temp_name])
            ELSE players,
            ships, ports, universe_sectors)

\* the warp passes every check of _execute_warp and reaches its writes
warp_reaches_writes(player_id, dest_sector, U, draws) ==
    LET player == get_player_by_id(players, player_id)
        ship == get_ship_by_player_id(ships, player_id)
        U1 == IF DOMAIN U = {} THEN generate_universe(draws) ELSE U
    IN /\ Len(player) = 1 /\ Len(ship) = 1
       /\ dest_sector >= 1 /\ dest_sector <= TOTAL_SECTORS
       /\ find_path(U1, ship[1].current_sector, dest_sector) # <<>>
       /\ player[1].turns >= Len(find_path(U1, ship[1].current_sector, dest_sector)) - 1

\* _execute_warp past its checks: update_ship_location (ops_done = 0) or
\* update_player_stats (1) raises and the except branch of _execute_warp answers
warp_fails(ctx, session_data, player_id, dest_sector, U, draws, ops_done) ==
    LET player == get_player_by_id(players, player_id)
        ship == get_ship_by_player_id(ships, player_id)
        U1 == IF DOMAIN U = {} THEN generate_universe(draws) ELSE U
        path == find_path(U1, ship[1].current_sector, dest_sector)
        Sh1 == update_ship_location(ships, ship[1].ship_id, dest_sector)
    IN Outcome("database_error", TRUE, session_data, TRUE, players,
               IF ops_done >= 1 THEN Sh1 ELSE ships, ports, U1)

\* the trade reaches the writes of _execute_trade
trade_reaches_writes(ctx, player_id) ==
    /\ Len(SessionPort(ctx)) = 1
    /\ Len(get_player_by_id(players, player_id)) = 1
    /\ Len(get_ship_by_player_id(ships, player_id)) = 1
    /\ Has(ctx, K_trade_commodity) /\ Has(ctx, K_trade_is_buying)

\* _execute_trade: update_player_stats (ops_done = 0), update_ship_cargo (1),
\* update_port_inventory (2) or update_port_credits (3) raises, or the
\* get_port_by_id that follows the writes (4) raises after session_data has been
\* given the state IN_PORT; the except branch of _execute_trade answers
trade_fails(ctx, player_id, quantity, ops_done) ==
    LET done == execute_trade(ctx, player_id, quantity)
        port_id == ctx[K_port_id]
        commodity == ctx[K_trade_commodity]
        port == SessionPort(ctx)[1]
        price == port.inventory[commodity].price
        amount == IF ctx[K_trade_is_buying] THEN execute_purchase(quantity, price)
                  ELSE execute_sale(quantity, price)
        new_inventory == IF ctx[K_trade_is_buying]
                         THEN update_port_inventory_after_buy(commodity, quantity, amount,
                                                              port.inventory)
                         ELSE update_port_inventory_after_sell(commodity, quantity, amount,
                                                               port.inventory)
    IN Outcome("database_error", TRUE,
               IF ops_done = 4 THEN Put(ctx, K_state, "IN_PORT") ELSE ctx, TRUE,
               IF ops_done >= 1 THEN done.players ELSE players,
               IF ops_done >= 2 THEN done.ships ELSE ships,
               IF ops_done >= 4 THEN done.ports
               ELSE IF ops_done = 3 THEN update_port_inventory(ports, port_id, new_inventory)
               ELSE ports,
               universe_sectors)

\* the try block in which the first storage call of a handled turn is a read:
\* "sector_view" (_handle_sector_view), "execute" (_execute_warp, _execute_trade),
\* "continue_session" (a handler without a try of its own), "none" (no read)
first_read(ctx, user_input) ==
    LET state == StateOf(ctx)
        index == isdigit(user_input) /\ int(user_input) >= 1 /\ int(user_input) <= 5
    IN IF state = "REGISTRATION"
       THEN IF ~Has(ctx, K_temp_name) /\ Len(user_input) >= 1
               /\ Len(user_input) <= NAME_MAX_LEN /\ isalnum(user_input)
            THEN "continue_session" ELSE "none"
       ELSE IF ~Has(ctx, K_player_id) THEN "start_session"
       ELSE IF state = "SECTOR_VIEW"
       THEN IF user_input \in { <<"R">>, <<"S", "C", "A", "N">> } THEN "sector_view"
            ELSE IF WarpLine(user_input) THEN "execute"
            ELSE IF user_input \in { <<"M">>, <<"P">>, <<"C">>, <<"S">> }
            THEN "continue_session" ELSE "none"
       ELSE IF state = "NAVIGATION"
       THEN IF user_input = <<"0">> THEN "sector_view"
            ELSE IF isdigit(user_input) THEN "execute" ELSE "none"
       ELSE IF state = "IN_PORT"
       THEN IF user_input = <<"0">> THEN "sector_view"
            ELSE IF user_input \in { <<"1">>, <<"2">>, <<"3">> }
            THEN "continue_session" ELSE "none"
       ELSE IF state \in {"PORT_BUY", "PORT_SELL"}
       THEN IF user_input = <<"0">> \/ index THEN "continue_session" ELSE "none"
       ELSE IF state = "TRADE_QUANTITY"
       THEN IF user_input = <<"0">> THEN "continue_session"
            ELSE IF isdigit(user_input) /\ int(user_input) >= 1 THEN "execute"
            ELSE "none"
       ELSE IF state \in {"VIEW_CARGO", "VIEW_STATS"} THEN "sector_view"
       ELSE "none"

\* the answer to a turn whose first storage read raises: the except branches of
\* start_session and _handle_sector_view return no session_data (PluginResponse
\* makes it {}), the others return the session_data the turn began with
read_fails(ctx, user_input) ==
    IF first_read(ctx, user_input) \in {"sector_view", "start_session"}
    THEN Outcome("database_error", FALSE, EmptyDict, TRUE,
                 players, ships, ports, universe_sectors)
    ELSE ContinueSessionError(ctx)

\* the destination of the warp a line asks for in the state of ctx
RequestedWarp(ctx, user_input) ==
    IF StateOf(ctx) = "SECTOR_VIEW" /\ WarpLine(user_input) THEN Some(int(Tail(user_input)))
    ELSE IF StateOf(ctx) = "NAVIGATION" /\ isdigit(user_input) /\ user_input # <<"0">>
    THEN Some(int(user_input))
    ELSE None

\* continue_session in REGISTRATION, answer Y, a write raises
RegistrationWriteFails(node, confirms) ==
    \E line \in confirms, ops_done \in 0..1 :
        /\ Active(sessions[node])
        /\ ~IsExit(sessions[node], line)
        /\ StateOf(sessions[node]) = "REGISTRATION"
        /\ Has(sessions[node], K_temp_name)
        /\ UserInput(line) \in YesAnswers
        /\ ~create_player_fails(players, node, sessions[node][K_temp_name])
        /\ Turn(node, line, registration_fails(node, sessions[node], ops_done))

\* a warp whose write raises
WarpWriteFails(node, lines) ==
    \E line \in lines, draws \in FindPathDraws, ops_done \in 0..1 :
        /\ Dispatch(node, line, StateOf(sessions[node]))
        /\ RequestedWarp(sessions[node], UserInput(line)) # None
        /\ warp_reaches_writes(sessions[node][K_player_id],
                               RequestedWarp(sessions[node], UserInput(line))[1],
                               universe_sectors, draws)
        /\ Turn(node, line, warp_fails(sessions[node], sessions[node],
                                       sessions[node][K_player_id],
                                       RequestedWarp(sessions[node], UserInput(line))[1],
                                       universe_sectors, draws, ops_done))

\* a trade whose write raises
TradeWriteFails(node, lines) ==
    \E line \in lines, ops_done \in 0..3 :
        /\ Dispatch(node, line, "TRADE_QUANTITY")
        /\ isdigit(UserInput(line)) /\ int(UserInput(line)) >= 1
        /\ WithinTrades(UserInput(line))
        /\ trade_reaches_writes(sessions[node], sessions[node][K_player_id])
        /\ Turn(node, line, trade_fails(sessions[node], sessions[node][K_player_id],
                                        int(UserInput(line)), ops_done))

\* a turn whose first storage call is a read that raises
StorageReadFails(node, lines) ==
    \E line \in lines :
        /\ Active(sessions[node])
        /\ ~IsExit(sessions[node], line)
        /\ first_read(sessions[node], UserInput(line)) # "none"
        /\ Turn(node, line, read_fails(sessions[node], UserInput(line)))

\* execute without an active session: the get_player_by_node_id of start_session raises
StartReadFails(node, lines) ==
    \E line \in lines :
        /\ ~Active(sessions[node])
        /\ Turn(node, line, Outcome("database_error", FALSE, EmptyDict, TRUE,
                                    players, ships, ports, universe_sectors))

\* a trade whose writes are made and whose next read raises
TradeReadBackFails(node, lines) ==
    \E line \in lines :
        /\ Dispatch(node, line, "TRADE_QUANTITY")
        /\ isdigit(UserInput(line)) /\ int(UserInput(line)) >= 1
        /\ WithinTrades(UserInput(line))
        /\ trade_reaches_writes(sessions[node], sessions[node][K_player_id])
        /\ Turn(node, line, trade_fails(sessions[node], sessions[node][K_player_id],
                                        int(UserInput(line)), 4))

\* ----- registration on a storage whose writes can fail ---------------------------
NextFaultyRegistration ==
    \/ \E node \in Nodes : StartSession(node, StartLines)
    \/ \E node \in Nodes : Registration(node, NameLines, ConfirmLines)
    \/ \E node \in Nodes : ExitCommand(node, ExitLines)
    \/ \E node \in Nodes : RegistrationWriteFails(node, ConfirmLines)

SpecFaultyRegistration == Init /\ [][NextFaultyRegistration]_vars

\* ----- one player warps and trades on a storage whose writes can fail ------------
FaultSectorViewLines == { <<"p">>, <<"M", "2">> }
FaultPortMenuLines == { <<"0">>, <<"1">>, <<"2">> }
FaultCommodityLines == { <<"0">>, <<"1">> }
FaultQuantityLines == { <<"0">>, <<"3">> }

NextFaultyWrites ==
    \/ StartSession(Solo, StartLines)
    \/ Registration(Solo, { <<"a", "c", "e">> }, { <<"y">> })
    \/ SectorViewInput(Solo, FaultSectorViewLines)
    \/ PortMenuInput(Solo, { <<"0">>, <<"1">> })
    \/ PortBuyInput(Solo, FaultCommodityLines)
    \/ TradeQuantityInput(Solo, FaultQuantityLines)
    \/ WarpWriteFails(Solo, FaultSectorViewLines)
    \/ TradeWriteFails(Solo, FaultQuantityLines)

SpecFaultyWrites == Init /\ [][NextFaultyWrites]_vars

\* ----- one player registers, docks and trades on a storage whose calls can fail --
FaultyReadLines == { <<"a", "c", "e">>, <<"p">>, <<"h">>, <<"r">>, <<"0">>, <<"1">>,
                    <<"2">>, <<"3">> }

NextFaultyStorage ==
    \/ StartSession(Solo, StartLines)
    \/ Registration(Solo, { <<"a", "c", "e">> }, { <<"y">> })
    \/ SectorViewInput(Solo, { <<"p">>, <<"h">>, <<"r">> })
    \/ PortMenuInput(Solo, FaultPortMenuLines)
    \/ PortBuyInput(Solo, FaultCommodityLines)
    \/ PortSellInput(Solo, FaultCommodityLines)
    \/ TradeQuantityInput(Solo, FaultQuantityLines)
    \/ StorageReadFails(Solo, FaultyReadLines)
    \/ StartReadFails(Solo, StartLines)
    \/ TradeReadBackFails(Solo, FaultQuantityLines)
    \/ RegistrationWriteFails(Solo, { <<"y">> })
    \/ TradeWriteFails(Solo, FaultQuantityLines)

SpecFaultyStorage == Init /\ [][NextFaultyStorage]_vars


\* ----- commands: one registered player sends every command of the sector view ----
CommandLines == SectorViewLines
                \cup { <<"M">>, <<" ", "P", " ">>, <<"C">>, <<"S">>, <<"H">>, <<"R">>,
                       <<"S", "c", "a", "n">>, <<"m", "2">>, <<"m", "x">>, <<"?">> }

NextCommands ==
    \/ StartSession(Solo, StartLines)
    \/ Registration(Solo, { <<"a", "c", "e">> }, { <<"y">> })
    \/ SectorViewInput(Solo, CommandLines)
    \/ NavigationInput(Solo, { <<"0">> })
    \/ PortMenuInput(Solo, { <<"0">> })
    \/ CargoViewInput(Solo, ViewLines)
    \/ StatsViewInput(Solo, ViewLines)

SpecCommands == Init /\ [][NextCommands]_vars


\* ----- port: one registered player walks the menus of a port and trades ----------
IndexLines == { <<"0">>, <<"1">>, <<"5">>, <<"6">>, <<"o", "r", "e">> }

NextPort ==
    \/ StartSession(Solo, StartLines)
    \/ Registration(Solo, { <<"a", "c", "e">> }, { <<"y">> })
    \/ SectorViewInput(Solo, { <<"p">> })
    \/ PortMenuInput(Solo, PortMenuLines)
    \/ PortBuyInput(Solo, IndexLines)
    \/ PortSellInput(Solo, IndexLines)
    \/ TradeQuantityInput(Solo, QuantityLines)

SpecPort == Init /\ [][NextPort]_vars


\* ----- prompts: one player answers every prompt for a number or a menu choice ----
SectorLines == { <<"m">>, <<"-", "1">>, str(TOTAL_SECTORS + 1), <<"0">> }
AmountLines == { <<"0">>, <<"3">>, <<"a", "l", "l">>, <<"-", "3">> }

NextPrompts ==
    \/ StartSession(Solo, StartLines)
    \/ Registration(Solo, { <<"a", "c", "e">> }, ConfirmLines)
    \/ ExitCommand(Solo, ExitLines)
    \/ SectorViewInput(Solo, { <<"m">>, <<"p">> })
    \/ NavigationInput(Solo, SectorLines)
    \/ PortMenuInput(Solo, PortMenuLines)
    \/ PortBuyInput(Solo, CommodityLines)
    \/ PortSellInput(Solo, CommodityLines)
    \/ TradeQuantityInput(Solo, AmountLines)

SpecPrompts == Init /\ [][NextPrompts]_vars


\* ----- play: one player uses every state of the game, the process restarts -------
PlaySectorViewLines == { <<"m">>, <<"p">>, <<"c">>, <<"s">>, <<"h">>, <<"r">>, <<"x">>,
                         <<"M", "2">>, <<"M">> \o str(TOTAL_SECTORS + 1) }
PlayNavigationLines == { <<"0">>, <<"m">>, str(TOTAL_SECTORS), str(TOTAL_SECTORS + 1) }
NextPlay ==
    \/ ExitCommand(Solo, ExitLines)
    \/ StartSession(Solo, StartLines)
    \/ Registration(Solo, { <<"a", "c", "e">> }, ConfirmLines)
    \/ SectorViewInput(Solo, PlaySectorViewLines)
    \/ NavigationInput(Solo, PlayNavigationLines)
    \/ PortMenuInput(Solo, PortMenuLines)
    \/ PortBuyInput(Solo, CommodityLines)
    \/ PortSellInput(Solo, CommodityLines)
    \/ TradeQuantityInput(Solo, AmountLines)
    \/ CargoViewInput(Solo, ViewLines)
    \/ StatsViewInput(Solo, ViewLines)

SpecPlay == Init /\ [][NextPlay]_vars


\* initialize() is called on the running plugin: _ensure_universe_initialized once
\* more, on the universe the process has
Initialize ==
    \E rnd \in ConstructionDraws :
        LET db == ensure_universe_initialized(sectors, ports, game_state, universe_sectors,
                                              universe_ports, rnd)
        IN /\ sectors' = db.sectors
           /\ ports' = db.ports
           /\ game_state' = db.game_state
           /\ universe_sectors' = db.universe_sectors
           /\ universe_ports' = db.universe_ports
           /\ message' = NoMessage
           /\ response' = NoResponse
           /\ UNCHANGED <<players, ships, sessions>>

\* ----- lifetime: one player trades and warps, the plugin is initialized again ----
NextLifetime ==
    \/ StartSession(Solo, StartLines)
    \/ Registration(Solo, { <<"a", "c", "e">> }, { <<"y">> })
    \/ SectorViewInput(Solo, { <<"p">>, <<"M", "2">> })
    \/ PortMenuInput(Solo, { <<"0">>, <<"1">> })
    \/ PortBuyInput(Solo, { <<"0">>, <<"1">> })
    \/ TradeQuantityInput(Solo, { <<"0">>, <<"3">> })
    \/ Initialize
    \/ Restart

SpecLifetime == Init /\ [][NextLifetime]_vars


\* ----- construction that is interrupted ----------------------------------------
\* the INSERT of create_port raises on a sector_id that a Port row has (UNIQUE), the
\* INSERT of create_sector on a sector_id that a Sector row has (PRIMARY KEY)
create_port_fails(Po, sector_id) == \E i \in DOMAIN Po : Po[i].sector_id = sector_id
create_sector_fails(Se, sector_id) == sector_id \in DOMAIN Se

\* the loop of _ensure_universe_initialized from sector_id on, on tables that may hold
\* rows already, stopped after writes_left storage writes: every create_ call commits
\* on its own, and the loop ends at the first call that raises (raised) or at the
\* interruption
RECURSIVE CreateSectorRowsUntil(_, _, _, _, _, _, _)
CreateSectorRowsUntil(Se, Po, sector_id, U, uports, inventory_draws, writes_left) ==
    IF sector_id > TOTAL_SECTORS
    THEN [sectors |-> Se, ports |-> Po, writes_left |-> writes_left, raised |-> FALSE]
    ELSE IF writes_left = 0
    THEN [sectors |-> Se, ports |-> Po, writes_left |-> 0, raised |-> FALSE]
    ELSE IF sector_id \in uports
    THEN IF create_port_fails(Po, sector_id)
         THEN [sectors |-> Se, ports |-> Po, writes_left |-> writes_left, raised |-> TRUE]
         ELSE LET Po1 == create_port(Po, sector_id, PORT_CREDITS,
                                     generate_port_inventory(inventory_draws[sector_id]))
              IN IF writes_left = 1
                 THEN [sectors |-> Se, ports |-> Po1, writes_left |-> 0, raised |-> FALSE]
                 ELSE IF create_sector_fails(Se, sector_id)
                 THEN [sectors |-> Se, ports |-> Po1, writes_left |-> writes_left - 1,
                       raised |-> TRUE]
                 ELSE CreateSectorRowsUntil(
                          create_sector(Se, sector_id, U[sector_id], Some(Len(Po1))),
                          Po1, sector_id + 1, U, uports, inventory_draws, writes_left - 2)
    ELSE IF create_sector_fails(Se, sector_id)
    THEN [sectors |-> Se, ports |-> Po, writes_left |-> writes_left, raised |-> TRUE]
    ELSE CreateSectorRowsUntil(create_sector(Se, sector_id, U[sector_id], None),
                               Po, sector_id + 1, U, uports, inventory_draws,
                               writes_left - 1)

\* __init__ of a new process on the tables (Se, Po, G): _ensure_universe_initialized
\* with at most writes_left storage writes.  The flag is set only when the loop has
\* created every row; a constructor that raises or is cut off leaves no plugin, and
\* no universe, in memory
interrupted_initialization(Se, Po, G, rnd, writes_left) ==
    IF get_state(G, "universe_initialized") # Some("true")
    THEN LET U1 == generate_universe(rnd.universe)
             uports1 == select_port_sectors(rnd.offsets)
             rows == CreateSectorRowsUntil(Se, Po, 1, U1, uports1, rnd.inventory, writes_left)
             completed == ~rows.raised /\ rows.writes_left >= 1
         IN [sectors |-> rows.sectors, ports |-> rows.ports,
             game_state |-> IF completed THEN set_state(G, "universe_initialized", "true")
                            ELSE G,
             universe_sectors |-> IF completed THEN U1 ELSE <<>>,
             universe_ports |-> IF completed THEN uports1 ELSE {}]
    ELSE [sectors |-> Se, ports |-> Po, game_state |-> G,
          universe_sectors |-> <<>>, universe_ports |-> {}]

\* the database that a first construction leaves behind when it is interrupted after
\* `writes` storage writes (none, some or all of the rows), before the flag is set
InitInterrupted ==
    \E rnd \in InitDraws, writes \in 0..(TOTAL_SECTORS + PORTS_COUNT) :
        LET db == interrupted_initialization(<<>>, <<>>, <<>>, rnd, writes)
        IN /\ players = <<>>
           /\ ships = <<>>
           /\ sectors = db.sectors
           /\ ports = db.ports
           /\ game_state = db.game_state
           /\ universe_sectors = <<>>
           /\ universe_ports = {}
           /\ sessions = [n \in Nodes |-> EmptyDict]
           /\ message = NoMessage
           /\ response = NoResponse

\* a later process constructs the plugin, with no interruption
Construct ==
    \E rnd \in ConstructionDraws :
        LET db == interrupted_initialization(sectors, ports, game_state, rnd,
                                             TOTAL_SECTORS + PORTS_COUNT + 1)
        IN /\ sectors' = db.sectors
           /\ ports' = db.ports
           /\ game_state' = db.game_state
           /\ universe_sectors' = db.universe_sectors
           /\ universe_ports' = db.universe_ports
           /\ sessions' = [n \in Nodes |-> EmptyDict]
           /\ message' = NoMessage
           /\ response' = NoResponse
           /\ UNCHANGED <<players, ships>>

\* the constructor has returned: the plugin is loaded only then
Constructed == get_state(game_state, "universe_initialized") = Some("true")

NextInterrupted ==
    \/ Construct
    \/ Constructed /\ StartSession(Solo, StartLines)
    \/ Constructed /\ Registration(Solo, { <<"a", "c", "e">> }, { <<"y">> })
    \/ Constructed /\ SectorViewInput(Solo, { <<"p">>, <<"M", "2">> })
    \/ Constructed /\ PortMenuInput(Solo, { <<"0">>, <<"1">> })
    \/ Constructed /\ PortBuyInput(Solo, { <<"0">>, <<"1">> })
    \/ Constructed /\ TradeQuantityInput(Solo, { <<"0">>, <<"3">> })

SpecInterrupted == InitInterrupted /\ [][NextInterrupted]_vars


\* ----- TradeWarsPlugin.continue_session as one function of the turn ------------
\* the outcome of continue_session for the session data ctx of `node` and the input
\* user_input (stripped, upper case), under the draws the turn may consume
continue_session(node, ctx, user_input, starting_sector, draws) ==
    LET state == StateOf(ctx)
    IN IF state = "REGISTRATION"
       THEN handle_registration_confirm(node, ctx, user_input, starting_sector)
       ELSE IF ~Has(ctx, K_player_id) THEN start_session(node, ctx)
       ELSE LET player_id == ctx[K_player_id]
            IN CASE state = "SECTOR_VIEW" ->
                        handle_sector_view_input(ctx, player_id, user_input, draws)
                 [] state = "NAVIGATION" ->
                        handle_navigation_input(ctx, player_id, user_input, draws)
                 [] state = "IN_PORT" -> handle_port_menu_input(ctx, player_id, user_input)
                 [] state = "PORT_BUY" -> handle_port_buy_input(ctx, player_id, user_input)
                 [] state = "PORT_SELL" -> handle_port_sell_input(ctx, player_id, user_input)
                 [] state = "TRADE_QUANTITY" ->
                        handle_trade_quantity_input(ctx, player_id, user_input)
                 [] state = "VIEW_CARGO" -> handle_cargo_view_input(ctx, player_id, user_input)
                 [] state = "VIEW_STATS" -> handle_stats_view_input(ctx, player_id, user_input)
                 [] OTHER -> ContinueSessionError(ctx)

\* ----- MessageHandler: the messages of a user go through _process_message ------
\* menu_patterns of the MessageHandler: ^menu$, ^main$, ^bbs$, ^start$
MENU_PATTERNS == { <<"m", "e", "n", "u">>, <<"m", "a", "i", "n">>, <<"b", "b", "s">>,
                   <<"s", "t", "a", "r", "t">> }
is_menu_request(text) == text \in MENU_PATTERNS

MenuLines == { <<"m", "e", "n", "u">>, <<"M", "A", "I", "N">>, <<"b", "b", "s">> }

\* _process_message on a menu request: _handle_menu_request answers the main menu
\* before _handle_direct_message looks for an active plugin; session.context, and the
\* plugin session data in it, is not touched
MenuRequest(node, lines) ==
    \E line \in lines :
        /\ is_menu_request(lower(strip(line)))
        /\ message' = [sender |-> node, text |-> line]
        /\ response' = [text |-> "main_menu", continue_session |-> FALSE, error |-> FALSE]
        /\ UNCHANGED <<players, ships, sectors, ports, game_state, universe_sectors,
                       universe_ports, sessions>>

\* the messages that _process_message hands to _handle_direct_message and, with an
\* active plugin session, to InteractivePlugin.execute
NextMessageHandler ==
    \/ \E node \in Nodes : MenuRequest(node, MenuLines)
    \/ \E node \in Nodes : StartSession(node, StartLines)
    \/ \E node \in Nodes : Registration(node, NameLines, ConfirmLines)
    \/ \E node \in Nodes : ExitCommand(node, ExitLines)

SpecMessageHandler == Init /\ [][NextMessageHandler]_vars


\* ----- regeneration: the inventory of a port is regenerated, with no trades ----
\* one invocation of regenerate_port_inventory on the inventory of a port, the result
\* stored as the inventory of that port
Regenerate(port_id) ==
    /\ \E i \in DOMAIN ports : ports[i].port_id = port_id
    /\ LET port == get_port_by_id(ports, port_id)[1]
       IN ports' = update_port_inventory(ports, port_id,
                                         regenerate_port_inventory(port.inventory))
    /\ message' = NoMessage
    /\ response' = NoResponse
    /\ UNCHANGED <<players, ships, sectors, game_state, universe_sectors,
                   universe_ports, sessions>>

NextRegeneration == \E port_id \in 1..PORTS_COUNT : Regenerate(port_id)

\* the regeneration of every port is invoked again and again
SpecRegeneration ==
    /\ Init
    /\ [][NextRegeneration]_vars
    /\ \A port_id \in 1..PORTS_COUNT : WF_vars(Regenerate(port_id))


\* ===== properties ==============================================================
\* the player and the ship of a node (None before registration)
PlayerOf(node) == get_player_by_node_id(players, node)
ShipOf(node) ==
    IF Len(PlayerOf(node)) = 0 THEN None
    ELSE get_ship_by_player_id(ships, PlayerOf(node)[1].player_id)

\* C1: in every reachable state every ship's cargo has each commodity quantity >= 0
\* and the sum of the quantities <= the ship's cargo_holds
CargoWithinHolds ==
    \A i \in DOMAIN ships :
        /\ \A c \in CommoditySet : ships[i].cargo[c] >= 0
        /\ get_cargo_used(ships[i].cargo) <= ships[i].cargo_holds

\* C2: in every reachable state every player's credits are >= 0
CreditsNonNegative == \A i \in DOMAIN players : players[i].credits >= 0

\* C3: in every reachable state every port's stock of every commodity is >= 0
PortStockNonNegative ==
    \A i \in DOMAIN ports : \A c \in CommoditySet : ports[i].inventory[c].quantity >= 0

\* the step is a turn of `node`: its message is routed to continue_session, which
\* reaches a state handler with the player of the session
HandledTurn(node) ==
    /\ message'.sender = node
    /\ Active(sessions[node])
    /\ ~IsExit(sessions[node], message'.text)
    /\ Has(sessions[node], K_player_id)

\* the destination of the warp that the turn of `node` requests (M<digits> in
\* SECTOR_VIEW, <digits> other than 0 in NAVIGATION), None if it requests none
WarpDest(node) ==
    LET user_input == UserInput(message'.text)
    IN IF ~HandledTurn(node) THEN None
       ELSE IF StateOf(sessions[node]) = "SECTOR_VIEW" /\ WarpLine(user_input)
       THEN Some(int(Tail(user_input)))
       ELSE IF StateOf(sessions[node]) = "NAVIGATION" /\ isdigit(user_input)
               /\ user_input # <<"0">>
       THEN Some(int(user_input))
       ELSE None

\* the least number of hops from the sectors of `frontier` to b in the graph adj
\* (sector -> sequence of neighbours), -1 if there is no path
RECURSIVE Hops(_, _, _, _)
Hops(adj, frontier, seen, b) ==
    IF b \in frontier THEN 0
    ELSE LET next == UNION {Range(adj[s]) : s \in frontier \cap DOMAIN adj} \ seen
         IN IF next = {} THEN -1
            ELSE LET h == Hops(adj, next, seen \cup next, b)
                 IN IF h < 0 THEN -1 ELSE h + 1
ShortestDistance(adj, a, b) == Hops(adj, {a}, {a}, b)

\* the sector graph stored in the Repository (table sectors)
PersistedGraph == [s \in DOMAIN sectors |-> sectors[s].connected_sectors]

\* the turn of `node` executes a warp
WarpExecuted(node) ==
    /\ WarpDest(node) # None
    /\ Len(PlayerOf(node)) = 1
    /\ Len(PlayerOf(node)') = 1
    /\ PlayerOf(node)'[1].total_warps = PlayerOf(node)[1].total_warps + 1

\* C4: the turns charged for a successful warp equal the shortest-path distance
\* between origin and destination in the persisted sector graph (so a warp to a
\* sector of the current sector's persisted connected_sectors costs 1 turn),
\* process restarts included
WarpCostIsPersistedDistance ==
    [][\A node \in Nodes :
          WarpExecuted(node) =>
              PlayerOf(node)[1].turns - PlayerOf(node)'[1].turns
                  = ShortestDistance(PersistedGraph, ShipOf(node)[1].current_sector,
                                     WarpDest(node)[1])]_vars

\* C5: a warp turn has the outcome (kind of response, persisted changes, next
\* session state) that the same input, session state and Repository contents have
\* in the process that never restarted, whose universe is the persisted graph
WarpOutcomeRestartIndependent ==
    [][\A node \in Nodes :
          WarpDest(node) # None =>
              LET ref == execute_warp(sessions[node], sessions[node],
                                      sessions[node][K_player_id], WarpDest(node)[1],
                                      PersistedGraph, NoDraws)
              IN /\ response'.text = ref.text
                 /\ response'.error = ref.error
                 /\ players' = ref.players
                 /\ ships' = ref.ships
                 /\ ports' = ref.ports
                 /\ sessions'[node] = ref.session_data]_vars

\* C6: a turn of a registered player whose stored state field is not a named state
\* is handled as SECTOR_VIEW: no error response, and the session is in SECTOR_VIEW
\* after the turn
UnknownStateHandledAsSectorView ==
    [][\A node \in Nodes :
          (HandledTurn(node) /\ StateOf(sessions[node]) \notin NamedStates) =>
              /\ response'.error = FALSE
              /\ Has(sessions'[node], K_state)
              /\ sessions'[node][K_state] = "SECTOR_VIEW"]_vars

\* the turn of `node` is step 1 of REGISTRATION (no candidate name is stored yet)
\* and the name it sends is the name of a registered player
DuplicateNameTurn(node) ==
    /\ message'.sender = node
    /\ Active(sessions[node])
    /\ ~IsExit(sessions[node], message'.text)
    /\ StateOf(sessions[node]) = "REGISTRATION"
    /\ ~Has(sessions[node], K_temp_name)
    /\ \E i \in DOMAIN players : players[i].player_name = UserInput(message'.text)

\* C7: in REGISTRATION step 1 a name equal to the name of a registered player is
\* rejected: no candidate name is stored, the session does not advance to the
\* confirmation, no Player and no Ship is created
DuplicateNameRejected ==
    [][\A node \in Nodes :
          DuplicateNameTurn(node) =>
              /\ ~Has(sessions'[node], K_temp_name)
              /\ players' = players
              /\ ships' = ships]_vars

\* the quantity of the trade that the turn of `node` executes (a positive number
\* entered in TRADE_QUANTITY for the port and commodity of the session), else None
TradeQuantity(node) ==
    LET user_input == UserInput(message'.text)
        ctx == sessions[node]
    IN IF /\ HandledTurn(node)
          /\ StateOf(ctx) = "TRADE_QUANTITY"
          /\ isdigit(user_input)
          /\ Has(ctx, K_trade_commodity) /\ Has(ctx, K_trade_is_buying)
          /\ Len(SessionPort(ctx)) = 1
          /\ Len(get_player_by_id(players, ctx[K_player_id])) = 1
          /\ Len(get_ship_by_player_id(ships, ctx[K_player_id])) = 1
          /\ int(user_input) >= 1
       THEN Some(int(user_input))
       ELSE None

\* C8: an executed trade of Q units at the port's stored unit price P changes the
\* player's credits by exactly round(Q * P) (down on a buy, up on a sale) and the
\* ship's cargo of the commodity by exactly Q (up on a buy, down on a sale), leaves
\* the cargo of every other commodity unchanged and adds exactly 1 to total_trades
TradeEffectExact ==
    [][\A node \in Nodes :
          TradeQuantity(node) # None =>
              LET ctx == sessions[node]
                  Q == TradeQuantity(node)[1]
                  commodity == ctx[K_trade_commodity]
                  P == SessionPort(ctx)[1].inventory[commodity].price
                  sign == IF ctx[K_trade_is_buying] THEN 1 ELSE -1
                  player == get_player_by_id(players, ctx[K_player_id])[1]
                  ship == get_ship_by_player_id(ships, ctx[K_player_id])[1]
                  player1 == get_player_by_id(players', ctx[K_player_id])[1]
                  ship1 == get_ship_by_player_id(ships', ctx[K_player_id])[1]
              IN /\ player1.credits = player.credits - sign * round(Q * P, 10)
                 /\ ship1.cargo[commodity] = ship.cargo[commodity] + sign * Q
                 /\ \A c \in CommoditySet \ {commodity} : ship1.cargo[c] = ship.cargo[c]
                 /\ player1.total_trades = player.total_trades + 1]_vars

\* C8 happens: a player has bought 3 units at 187.5 (562.5 rounds to 562) and the
\* sale of 3 units at the same price has just been executed
TradeExecutedBothWays ==
    \E node \in Nodes :
        /\ message = [sender |-> node, text |-> <<"3">>]
        /\ response.text = "trade_sold"
        /\ Len(PlayerOf(node)) = 1
        /\ PlayerOf(node)[1].total_trades = 2
        /\ PlayerOf(node)[1].credits = START_CREDITS
        /\ \A c \in CommoditySet : ShipOf(node)[1].cargo[c] = 0

\* the warp that the turn of `node` requests succeeds: the destination is a sector,
\* there is a path and the player's turns cover its distance
WarpSucceeds(node) ==
    /\ WarpDest(node) # None
    /\ WarpDest(node)[1] \in Sectors
    /\ Len(PlayerOf(node)) = 1 /\ Len(ShipOf(node)) = 1
    /\ LET d == get_distance(universe_sectors', ShipOf(node)[1].current_sector,
                             WarpDest(node)[1])
       IN d # None /\ PlayerOf(node)[1].turns >= d[1]

\* C9: distance(a, b) = len(path(a, b)) - 1 for every pair of sectors, and a
\* successful warp from a to b takes exactly distance(a, b) turns from the player,
\* sets the ship's sector to b, adds exactly 1 to total_warps and leaves the
\* session in SECTOR_VIEW
WarpEffectExact ==
    /\ [](\A a, b \in DOMAIN universe_sectors :
             LET path == find_path(universe_sectors, a, b)
             IN get_distance(universe_sectors, a, b)
                    = IF path = None THEN None ELSE Some(Len(path) - 1))
    /\ [][\A node \in Nodes :
             WarpSucceeds(node) =>
                 LET a == ShipOf(node)[1].current_sector
                     b == WarpDest(node)[1]
                     distance == get_distance(universe_sectors', a, b)[1]
                 IN /\ PlayerOf(node)'[1].turns = PlayerOf(node)[1].turns - distance
                    /\ ShipOf(node)'[1].current_sector = b
                    /\ PlayerOf(node)'[1].total_warps = PlayerOf(node)[1].total_warps + 1
                    /\ Has(sessions'[node], K_state)
                    /\ sessions'[node][K_state] = "SECTOR_VIEW"]_vars

\* C9 happens: a warp over two hops has just been executed from NAVIGATION
WarpExecutedOverTwoHops ==
    \E node \in Nodes :
        /\ message.sender = node
        /\ isdigit(message.text)
        /\ response.text = "sector_view"
        /\ Len(PlayerOf(node)) = 1
        /\ PlayerOf(node)[1].total_warps = 1
        /\ PlayerOf(node)[1].turns = START_TURNS - 2
        /\ get_distance(universe_sectors, 1, ShipOf(node)[1].current_sector) = Some(2)

\* the path cost of the warp that the turn of `node` requests is higher than the
\* player's turns
WarpUnaffordable(node) ==
    /\ WarpDest(node) # None
    /\ WarpDest(node)[1] \in Sectors
    /\ Len(PlayerOf(node)) = 1 /\ Len(ShipOf(node)) = 1
    /\ ShortestDistance(universe_sectors', ShipOf(node)[1].current_sector,
                        WarpDest(node)[1]) > PlayerOf(node)[1].turns

\* C10: a warp request (in NAVIGATION or as M<digits>) whose path cost is higher
\* than the player's turns is rejected and changes nothing: the player's turns and
\* total_warps, the ship's sector and the session state are as before the turn
UnaffordableWarpChangesNothing ==
    [][\A node \in Nodes :
          WarpUnaffordable(node) =>
              /\ response'.text = "not_enough_turns"
              /\ PlayerOf(node)'[1].turns = PlayerOf(node)[1].turns
              /\ PlayerOf(node)'[1].total_warps = PlayerOf(node)[1].total_warps
              /\ ShipOf(node)'[1].current_sector = ShipOf(node)[1].current_sector
              /\ players' = players
              /\ ships' = ships
              /\ sessions'[node] = sessions[node]]_vars

\* C10 happens: a warp request entered in NAVIGATION has just been rejected for
\* its cost, the session still in NAVIGATION
UnaffordableWarpRejected ==
    \E node \in Nodes :
        /\ message.sender = node
        /\ response.text = "not_enough_turns"
        /\ StateOf(sessions[node]) = "NAVIGATION"
        /\ Len(PlayerOf(node)) = 1
        /\ PlayerOf(node)[1].turns < 2

\* C11: in every reachable state every player's turns remaining are >= 0
TurnsNonNegative == \A i \in DOMAIN players : players[i].turns >= 0

\* C11 happens: a player has warped until no turn is left
TurnsSpentToZero ==
    \E i \in DOMAIN players : players[i].turns = 0 /\ players[i].total_warps >= 1

\* C12: every universe that generate_universe produces is connected: the
\* breadth-first traversal from sector 1 visits all the sectors, validate_universe
\* returns true
GeneratedUniverseConnected ==
    DOMAIN universe_sectors # {} => validate_universe(universe_sectors)

\* C12 happens: after a restart find_path has generated a universe that differs
\* from the one construction generated
UniverseRegenerated ==
    /\ DOMAIN universe_sectors # {}
    /\ universe_sectors # PersistedGraph

\* C13: in a generated universe B is in adj(A) iff A is in adj(B), and no
\* adjacency list holds the sector itself or an entry twice
GeneratedUniverseSymmetric ==
    \A a \in DOMAIN universe_sectors :
        /\ \A b \in DOMAIN universe_sectors :
               b \in Range(universe_sectors[a]) <=> a \in Range(universe_sectors[b])
        /\ a \notin Range(universe_sectors[a])
        /\ Cardinality(Range(universe_sectors[a])) = Len(universe_sectors[a])

\* C13 happens: the generated universe has an edge of the random pass, in both lists
RandomEdgeBothWays ==
    \E a, b \in DOMAIN universe_sectors :
        /\ b > a + 1
        /\ b \in Range(universe_sectors[a])
        /\ a \in Range(universe_sectors[b])

\* the sector graphs over Sectors with symmetric, sorted adjacency lists (one for
\* each set of edges), and the ids a caller can pass (two of them are no sector)
RECURSIVE Ascending(_)
Ascending(set) ==
    IF set = {} THEN <<>> ELSE <<Min(set)>> \o Ascending(set \ {Min(set)})
AllEdges == {e \in Sectors \X Sectors : e[1] < e[2]}
GraphOf(edges) ==
    [s \in Sectors |->
        Ascending({t \in Sectors : <<s, t>> \in edges \/ <<t, s>> \in edges})]
SectorGraphs == {GraphOf(edges) : edges \in SUBSET AllEdges}
SectorIds == 0..(TOTAL_SECTORS + 1)

\* what C14 says of find_path(a, b) in the graph G
PathCorrect(G, a, b) ==
    LET path == find_path(G, a, b)
        least == ShortestDistance(G, a, b)
    IN /\ path = None <=> (a \notin DOMAIN G \/ b \notin DOMAIN G \/ least = -1)
       /\ path # None =>
              /\ path[1] = a
              /\ path[Len(path)] = b
              /\ \A i \in 1..(Len(path) - 1) : path[i + 1] \in Range(G[path[i]])
              /\ Len(path) - 1 = least
       /\ (a = b /\ a \in DOMAIN G) => path = <<a>>

\* find_path is correct on every sector graph, the disconnected ones included
PathCorrectOnSectorGraphs ==
    \A G \in SectorGraphs : \A a, b \in SectorIds : PathCorrect(G, a, b)

\* C14: find_path(a, b) starts at a, ends at b, steps along edges and has the
\* least number of edges; it is None exactly when b is unreachable from a or an id
\* is no sector; find_path(a, a) = [a].  Stated of the universe the process holds
\* and of every sector graph over the sectors.
FindPathShortest ==
    /\ DOMAIN universe_sectors # {} =>
           \A a, b \in SectorIds : PathCorrect(universe_sectors, a, b)
    /\ PathCorrectOnSectorGraphs

\* C14 happens: a warp from sector 1 to sector 3 has taken the edge 1 - 3 of the
\* random pass instead of the chain 1 - 2 - 3
ShortcutTaken ==
    \E node \in Nodes :
        /\ response.text = "sector_view"
        /\ message.sender = node
        /\ Len(PlayerOf(node)) = 1
        /\ PlayerOf(node)[1].total_warps = 1
        /\ PlayerOf(node)[1].turns = START_TURNS - 1
        /\ ShipOf(node)[1].current_sector = 3
        /\ DOMAIN universe_sectors # {}
        /\ 3 \in Range(universe_sectors[1])

\* the quantity changes calculate_price is asked about: small ones, the ones that
\* reach the floor and the cap of a commodity exactly, and ones beyond them
QuantityChanges == {-6000, -1001, -500, -10, -3, 0, 3, 10, 20, 1001, 6000}

\* price (in tenths) lies in [0.5 * base_price, 2.0 * base_price]
PriceInRange(price, base_price) == 5 * base_price <= price /\ price <= 20 * base_price

\* C15: in every reachable state every port commodity's stored price lies in
\* [0.5 * base_price, 2.0 * base_price], at creation and after trades, and so does
\* every price calculate_price returns for it
PriceWithinBounds ==
    \A i \in DOMAIN ports : \A c \in CommoditySet :
        LET item == ports[i].inventory[c]
        IN /\ PriceInRange(item.price, BASE_PRICES[c])
           /\ \A quantity_change \in QuantityChanges :
                  PriceInRange(calculate_price(c, quantity_change, ports[i].inventory),
                               BASE_PRICES[c])

\* C15 happens: trades have emptied a port's stock of a commodity, for which
\* calculate_price returns the stored price, and the price is recomputed to the
\* cap for a commodity that is in stock
PriceRecomputedAfterTrades ==
    \E i \in DOMAIN ports : \E c, d \in CommoditySet :
        /\ ports[i].inventory[c].quantity <= 0
        /\ calculate_price(c, 3, ports[i].inventory) = ports[i].inventory[c].price
        /\ ports[i].inventory[d].quantity > 0
        /\ calculate_price(d, 6000, ports[i].inventory) = 20 * BASE_PRICES[d]

\* C16: an executed trade changes the traded commodity's regime at the port in one
\* case only, from Selling to Buying when the trade takes the stock from at or
\* above 50,000 units to below 50,000; in every other executed trade the regime
\* is the same after as before
RegimeFlipsOnlyOnCrossing ==
    [][\A node \in Nodes :
          TradeQuantity(node) # None =>
              LET ctx == sessions[node]
                  commodity == ctx[K_trade_commodity]
                  i == CHOOSE j \in DOMAIN ports : ports[j].port_id = ctx[K_port_id]
                  before == ports[i].inventory[commodity]
                  after == ports'[i].inventory[commodity]
              IN after.status # before.status =>
                     /\ before.status = "Selling" /\ after.status = "Buying"
                     /\ before.quantity >= REGIME_THRESHOLD
                     /\ after.quantity < REGIME_THRESHOLD]_vars

\* the commodities and quantities the validations are asked about ("Fuel" is
\* listed nowhere; 20 fills an empty ship, 21 does not fit; 53 units of Ore at
\* 187.5 cost less than the starting credits, 54 cost more)
ValidatedCommodities == CommoditySet \cup {"Fuel"}
ValidatedQuantities == {1, 3, 4, 20, 21, 53, 54, 1000, 1001}

\* the step is a turn of `node` that PORT_BUY or PORT_SELL handles, i.e. one that
\* calls a validation
ValidationTurn(node) ==
    /\ HandledTurn(node)
    /\ StateOf(sessions[node]) \in {"PORT_BUY", "PORT_SELL"}

\* C17: for quantity >= 1, can_buy_from_port allows iff the port lists the
\* commodity, its regime is Selling, stock >= quantity, cargo_used + quantity <=
\* capacity and credits >= quantity * price; can_sell_to_port allows iff the player
\* holds >= quantity, the port lists the commodity with regime Buying and the
\* port's credits >= quantity * price; a turn that validates writes no player,
\* ship or port
TradeValidationExact ==
    /\ [](\A s \in DOMAIN ships : \A i \in DOMAIN ports :
            \A commodity \in ValidatedCommodities : \A quantity \in ValidatedQuantities :
               LET ship == ships[s]
                   player == get_player_by_id(players, ship.player_id)[1]
                   port == ports[i]
                   listed == commodity \in DOMAIN port.inventory
                   item == port.inventory[commodity]
               IN /\ can_buy_from_port(commodity, quantity, player.credits,
                                       get_cargo_used(ship.cargo), ship.cargo_holds,
                                       port.inventory)[1]
                        <=> /\ listed
                            /\ item.status = "Selling"
                            /\ item.quantity >= quantity
                            /\ get_cargo_used(ship.cargo) + quantity <= ship.cargo_holds
                            /\ 10 * player.credits >= quantity * item.price
                  /\ can_sell_to_port(commodity, quantity, ship.cargo, port.inventory,
                                      port.credits)[1]
                        <=> /\ commodity \in DOMAIN ship.cargo
                            /\ ship.cargo[commodity] >= quantity
                            /\ listed
                            /\ item.status = "Buying"
                            /\ 10 * port.credits >= quantity * item.price)
    /\ [][\A node \in Nodes :
             ValidationTurn(node) =>
                 /\ players' = players /\ ships' = ships /\ ports' = ports]_vars

\* C17 happens: a sale has just passed can_sell_to_port (the session waits for
\* the quantity of a sale) while the same player may buy 3 units of a commodity
\* at the port, but not 21
ValidationPassedBothWays ==
    \E node \in Nodes :
        /\ message.sender = node
        /\ response.text = "trade_quantity_prompt"
        /\ StateOf(sessions[node]) = "TRADE_QUANTITY"
        /\ Has(sessions[node], K_trade_is_buying)
        /\ ~sessions[node][K_trade_is_buying]
        /\ Len(ShipOf(node)) = 1 /\ Len(SessionPort(sessions[node])) = 1
        /\ \E c \in CommoditySet :
               LET ship == ShipOf(node)[1]
                   port == SessionPort(sessions[node])[1]
               IN /\ can_buy_from_port(c, 3, PlayerOf(node)[1].credits,
                                       get_cargo_used(ship.cargo), ship.cargo_holds,
                                       port.inventory)[1]
                  /\ ~can_buy_from_port(c, 21, PlayerOf(node)[1].credits,
                                        get_cargo_used(ship.cargo), ship.cargo_holds,
                                        port.inventory)[1]

\* the step is a turn of `node` at REGISTRATION step 1 (no candidate name stored)
NameEntryTurn(node) ==
    /\ message'.sender = node
    /\ Active(sessions[node])
    /\ ~IsExit(sessions[node], message'.text)
    /\ StateOf(sessions[node]) = "REGISTRATION"
    /\ ~Has(sessions[node], K_temp_name)

\* a name outside 1-8 alphanumeric characters
InvalidName(name) ==
    \/ Len(name) = 0
    \/ Len(name) > 8
    \/ \E i \in DOMAIN name :
          name[i] \notin Range(DigitChars) \cup Range(LowerChars) \cup Range(UpperChars)

\* C18: in REGISTRATION step 1 an input that after trimming is empty, longer than
\* 8 characters or holds a non-alphanumeric character is rejected: no candidate
\* name is stored, the session stays at name entry, no Player or Ship is created
InvalidNameRejected ==
    [][\A node \in Nodes :
          (NameEntryTurn(node) /\ InvalidName(strip(message'.text))) =>
              /\ ~Has(sessions'[node], K_temp_name)
              /\ Active(sessions'[node])
              /\ StateOf(sessions'[node]) = "REGISTRATION"
              /\ players' = players
              /\ ships' = ships
              /\ response'.continue_session]_vars

\* C18 happens: a name with a non-alphanumeric character has just been rejected
\* and the session is still at name entry
NonAlphanumericNameRejected ==
    \E node \in Nodes :
        /\ message.sender = node
        /\ message.text = <<"a", "-", "1">>
        /\ response.text = "name_invalid: Alphanumeric only"
        /\ StateOf(sessions[node]) = "REGISTRATION"
        /\ ~Has(sessions[node], K_temp_name)

\* the step is a message of `node` while its session is at the registration
\* confirmation step (a candidate name is stored)
ConfirmationMessage(node) ==
    /\ message'.sender = node
    /\ Active(sessions[node])
    /\ StateOf(sessions[node]) = "REGISTRATION"
    /\ Has(sessions[node], K_temp_name)

\* what C19 says of the answer of `node`: N/NO discards the candidate, creates no
\* row and returns to name entry; an answer other than Y/YES/N/NO keeps the
\* candidate and the state
AnswerEffect(node) ==
    LET answer == UserInput(message'.text)
    IN /\ answer \in {<<"N">>, <<"N", "O">>} =>
              /\ ~Has(sessions'[node], K_temp_name)
              /\ Active(sessions'[node])
              /\ Has(sessions'[node], K_state)
              /\ sessions'[node][K_state] = "REGISTRATION"
              /\ players' = players
              /\ ships' = ships
       /\ answer \notin {<<"Y">>, <<"Y", "E", "S">>, <<"N">>, <<"N", "O">>} =>
              /\ Has(sessions'[node], K_temp_name)
              /\ sessions'[node][K_temp_name] = sessions[node][K_temp_name]
              /\ Has(sessions'[node], K_state)
              /\ sessions'[node][K_state] = "REGISTRATION"
              /\ players' = players
              /\ ships' = ships

ConfirmedByYes(node) ==
    /\ ConfirmationMessage(node)
    /\ UserInput(message'.text) \in {<<"Y">>, <<"Y", "E", "S">>}

\* the step creates exactly one Player (starting credits and turns, score 0, the
\* candidate as name, the sender as identity) and exactly one Ship owned by it
\* (empty cargo, capacity 20, a starting sector), and moves the session of `node`
\* to SECTOR_VIEW with no candidate left
PlayerAndShipCreated(node) ==
    /\ Len(players') = Len(players) + 1
    /\ SubSeq(players', 1, Len(players)) = players
    /\ LET player == players'[Len(players')]
       IN /\ player.credits = START_CREDITS
          /\ player.turns = START_TURNS
          /\ player.score = 0
          /\ player.player_name = sessions[node][K_temp_name]
          /\ player.node_id = node
          /\ Len(ships') = Len(ships) + 1
          /\ SubSeq(ships', 1, Len(ships)) = ships
          /\ LET ship == ships'[Len(ships')]
             IN /\ ship.player_id = player.player_id
                /\ \A c \in CommoditySet : ship.cargo[c] = 0
                /\ ship.cargo_holds = CARGO_HOLDS
                /\ ship.current_sector \in 1..START_SECTOR_MAX
    /\ Has(sessions'[node], K_state)
    /\ sessions'[node][K_state] = "SECTOR_VIEW"
    /\ ~Has(sessions'[node], K_temp_name)

CandidateFree(node) ==
    \A i \in DOMAIN players :
        /\ players[i].player_name # sessions[node][K_temp_name]
        /\ players[i].node_id # node

EveryPlayerHasOneShip ==
    /\ \A i \in DOMAIN players :
           Cardinality({j \in DOMAIN ships : ships[j].player_id = players[i].player_id}) = 1
    /\ \A j \in DOMAIN ships :
           Cardinality({i \in DOMAIN players : players[i].player_id = ships[j].player_id}) = 1

\* the step is a turn of `node` that starts a session: the node has no active session
StartTurn(node) == message'.sender = node /\ ~Active(sessions[node])

\* C22: a session started for an identity with no Player row begins in REGISTRATION,
\* one started for an identity with a Player row begins in SECTOR_VIEW bound to the
\* id of that player; starting a session changes no persisted row
SessionStartsByPlayerRow ==
    [][\A node \in Nodes :
          StartTurn(node) =>
              /\ Active(sessions'[node])
              /\ IF Len(PlayerOf(node)) = 0
                 THEN /\ Has(sessions'[node], K_state)
                      /\ sessions'[node][K_state] = "REGISTRATION"
                      /\ ~Has(sessions'[node], K_player_id)
                 ELSE /\ Has(sessions'[node], K_state)
                      /\ sessions'[node][K_state] = "SECTOR_VIEW"
                      /\ Has(sessions'[node], K_player_id)
                      /\ sessions'[node][K_player_id] = PlayerOf(node)[1].player_id
              /\ UNCHANGED <<players, ships, sectors, ports, game_state>>]_vars

\* a registered player has left and started a session again: it is in SECTOR_VIEW
ReturningPlayerInSectorView ==
    \E node \in Nodes :
        /\ message = [sender |-> node, text |-> <<"t", "w">>]
        /\ Len(PlayerOf(node)) = 1
        /\ response.text = "sector_view"
        /\ StateOf(sessions[node]) = "SECTOR_VIEW"
        /\ Has(sessions[node], K_player_id)

\* the command of the message of the step, without regard to case and outer blanks
Command == upper(strip(message'.text))
\* the command asks for a direct warp: M followed by digits
DirectWarp(command) == Len(command) >= 2 /\ Head(command) = "M" /\ isdigit(Tail(command))
\* the sector of the ship of `node` has a port
DockablePort(node) == \E i \in DOMAIN ports : ports[i].sector_id = ShipOf(node)[1].current_sector

CommodityIndex(command) ==
    IF isdigit(command) /\ int(command) >= 1 /\ int(command) <= 5 THEN int(command) ELSE 0

\* the one-unit validation of the commodity with index k for the direction of `state`
OneUnitValid(node, state, k) ==
    LET player == PlayerOf(node)[1]
        ship == ShipOf(node)[1]
        port == SessionPort(sessions[node])[1]
    IN IF state = "PORT_BUY"
       THEN can_buy_from_port(COMMODITIES[k], 1, player.credits, get_cargo_used(ship.cargo),
                              ship.cargo_holds, port.inventory)[1]
       ELSE can_sell_to_port(COMMODITIES[k], 1, ship.cargo, port.inventory, port.credits)[1]

\* the trade recorded in the session of `node` is executed for `quantity` units
RecordedTradeExecuted(node, quantity) ==
    LET ctx == sessions[node]
        commodity == ctx[K_trade_commodity]
        sign == IF ctx[K_trade_is_buying] THEN 1 ELSE -1
    IN /\ ShipOf(node)'[1].cargo = [ShipOf(node)[1].cargo EXCEPT ![commodity] = @ + sign * quantity]
       /\ PlayerOf(node)'[1].total_trades = PlayerOf(node)[1].total_trades + 1
       /\ SessionPort(ctx)'[1].inventory[commodity].quantity =
              SessionPort(ctx)[1].inventory[commodity].quantity - sign * quantity

\* C24: the transition relation of the port sub-protocol. IN_PORT: 1 -> PORT_BUY,
\* 2 -> PORT_SELL, 3 lists and stays, 0 -> SECTOR_VIEW. PORT_BUY / PORT_SELL:
\* 0 -> IN_PORT; a commodity index 1..5 that passes the one-unit validation ->
\* TRADE_QUANTITY with the commodity and the direction recorded, otherwise the state
\* stays. TRADE_QUANTITY: 0 -> IN_PORT with no persisted change; a positive integer
\* executes the recorded trade and -> IN_PORT
PortProtocol ==
    [][\A node \in Nodes :
          LET state == StateOf(sessions[node])
              k == CommodityIndex(Command)
          IN (HandledTurn(node)
              /\ state \in {"IN_PORT", "PORT_BUY", "PORT_SELL", "TRADE_QUANTITY"}) =>
              /\ Active(sessions'[node])
              /\ Has(sessions'[node], K_state)
              /\ (state = "IN_PORT" /\ Command = <<"1">>)
                     => sessions'[node][K_state] = "PORT_BUY"
              /\ (state = "IN_PORT" /\ Command = <<"2">>)
                     => sessions'[node][K_state] = "PORT_SELL"
              /\ (state = "IN_PORT" /\ Command = <<"3">>)
                     => sessions'[node][K_state] = "IN_PORT" /\ response'.text = "port_list"
              /\ (state = "IN_PORT" /\ Command = <<"0">>)
                     => sessions'[node][K_state] = "SECTOR_VIEW"
              /\ (state \in {"PORT_BUY", "PORT_SELL"}) =>
                     IF Command = <<"0">> THEN sessions'[node][K_state] = "IN_PORT"
                     ELSE IF k # 0 /\ OneUnitValid(node, state, k)
                     THEN /\ sessions'[node][K_state] = "TRADE_QUANTITY"
                          /\ Has(sessions'[node], K_trade_commodity)
                          /\ sessions'[node][K_trade_commodity] = COMMODITIES[k]
                          /\ Has(sessions'[node], K_trade_is_buying)
                          /\ sessions'[node][K_trade_is_buying] = (state = "PORT_BUY")
                     ELSE sessions'[node][K_state] = state
              /\ (state = "TRADE_QUANTITY" /\ Command = <<"0">>)
                     => /\ sessions'[node][K_state] = "IN_PORT"
                        /\ UNCHANGED <<players, ships, sectors, ports, game_state>>
              /\ (state = "TRADE_QUANTITY" /\ isdigit(Command) /\ int(Command) >= 1)
                     => /\ sessions'[node][K_state] = "IN_PORT"
                        /\ RecordedTradeExecuted(node, int(Command))]_vars

\* a sale was chosen and validated: the session waits for its quantity
SaleQuantityAwaited ==
    \E node \in Nodes :
        /\ message.sender = node
        /\ response.text = "trade_quantity_prompt"
        /\ StateOf(sessions[node]) = "TRADE_QUANTITY"
        /\ Has(sessions[node], K_trade_is_buying)
        /\ sessions[node][K_trade_is_buying] = FALSE
        /\ Has(sessions[node], K_trade_commodity)

\* the session of `node` is at a prompt for a number or a menu choice and the
\* command of the step is malformed for it: not a number where a number is
\* required, or a choice outside the range of the menu
MalformedAtPrompt(node) ==
    LET ctx == sessions[node]
        state == StateOf(ctx)
        number == isdigit(Command)
    IN /\ message'.sender = node
       /\ Active(ctx)
       /\ \/ state = "NAVIGATION" /\ (~number \/ int(Command) > TOTAL_SECTORS)
          \/ state = "IN_PORT" /\ (~number \/ int(Command) > 3)
          \/ state \in {"PORT_BUY", "PORT_SELL"} /\ (~number \/ int(Command) > 5)
          \/ state = "TRADE_QUANTITY" /\ ~number
          \/ state = "REGISTRATION" /\ Has(ctx, K_temp_name)
               /\ Command \notin { <<"Y">>, <<"Y", "E", "S">>, <<"N">>, <<"N", "O">> }

\* the turn leaves the session of `node` at the prompt it was at and changes no
\* Player, Ship or Port row
PromptRepeated(node) ==
    /\ Active(sessions'[node])
    /\ StateOf(sessions'[node]) = StateOf(sessions[node])
    /\ Has(sessions'[node], K_temp_name) = Has(sessions[node], K_temp_name)
    /\ UNCHANGED <<players, ships, ports>>

RowsExist(node) ==
    /\ Len(PlayerOf(node)) = 1
    /\ Len(ShipOf(node)) = 1
    /\ Len(get_sector(sectors, ShipOf(node)[1].current_sector)) = 1

UniverseInitialized == get_state(game_state, "universe_initialized") = Some("true")

\* C27: universe generation and port selection take effect once per repository
\* lifetime: once the flag universe_initialized is set, every further initialization
\* (construction, initialize(), restart) creates and changes no sector and no port
\* row and leaves the flag set
InitializedOnlyOnce ==
    /\ []UniverseInitialized
    /\ [][message' = NoMessage => UNCHANGED <<sectors, ports, game_state>>]_vars

\* the plugin was initialized again after a trade had changed a port
InitializedAgainAfterTrade ==
    /\ message = NoMessage
    /\ UniverseInitialized
    /\ TotalTrades >= 1
    /\ Cardinality(DOMAIN sectors) = TOTAL_SECTORS
    /\ Len(ports) = PORTS_COUNT

\* the step is a turn of `node` during which a storage call failed: it is answered
\* by an except branch, which sets the error of the response
FailedTurn(node) == message'.sender = node /\ response'.error = TRUE

\* C28: when a storage read or write fails during a turn, the player receives the
\* generic failure message and the session does not advance to a new protocol
\* state: it keeps its state, or it is reset so that the next turn restarts from
\* the repository
FailedTurnKeepsOrResetsState ==
    [][\A node \in Nodes :
          FailedTurn(node) =>
              /\ response'.text = "database_error"
              /\ \/ sessions'[node] = EmptyDict
                 \/ /\ Active(sessions[node])
                    /\ Active(sessions'[node])
                    /\ StateOf(sessions'[node]) = StateOf(sessions[node])]_vars

\* C29: the writes of the repository commit one by one and no transaction spans a
\* warp or a trade: when a write fails part-way, the writes already made stay
\* persisted and the later ones are not made. A failed warp leaves the player as it
\* was and the ship where it was or at the destination; a failed trade leaves the
\* port credits as they were, the port stock changed only if the cargo is, and the
\* cargo changed only if the player is debited or credited
FailedTurnKeepsWritesMade ==
    [][\A node \in Nodes :
          FailedTurn(node) =>
              /\ WarpDest(node) # None =>
                     /\ UNCHANGED <<players, ports>>
                     /\ \/ UNCHANGED ships
                        \/ ships' = [i \in DOMAIN ships |->
                                        IF ships[i].ship_id = ShipOf(node)[1].ship_id
                                        THEN [ships[i] EXCEPT !.current_sector = WarpDest(node)[1]]
                                        ELSE ships[i]]
              /\ TradeQuantity(node) # None =>
                     LET port == SessionPort(sessions[node])[1]
                         commodity == sessions[node][K_trade_commodity]
                         sign == IF sessions[node][K_trade_is_buying] THEN 1 ELSE -1
                         debited == PlayerOf(node)'[1].total_trades
                                        = PlayerOf(node)[1].total_trades + 1
                         loaded == ShipOf(node)'[1].cargo[commodity]
                                       = ShipOf(node)[1].cargo[commodity]
                                         + sign * TradeQuantity(node)[1]
                         stocked == SessionPort(sessions[node])'[1].inventory[commodity].quantity
                                        = port.inventory[commodity].quantity
                                          - sign * TradeQuantity(node)[1]
                     IN /\ SessionPort(sessions[node])'[1].credits = port.credits
                        /\ debited \/ UNCHANGED players
                        /\ loaded \/ UNCHANGED ships
                        /\ stocked \/ UNCHANGED ports
                        /\ stocked => loaded
                        /\ loaded => debited]_vars

\* a warp failed after the ship was relocated: the ship is away from every starting
\* sector while its player has made no warp and has all its turns
ShipRelocatedTurnsNotCharged ==
    \E node \in Nodes :
        /\ message.sender = node
        /\ response.error = TRUE
        /\ Len(ShipOf(node)) = 1
        /\ ShipOf(node)[1].current_sector \notin 1..START_SECTOR_MAX
        /\ PlayerOf(node)[1].total_warps = 0
        /\ PlayerOf(node)[1].turns = START_TURNS

\* C30: if a registered player has no Ship row, every turn for that player is
\* aborted with a generic error and the continue flag false, and performs no write:
\* no ship is fabricated and no row is changed
ShiplessPlayerTurnAborted ==
    [][\A node \in Nodes :
          (/\ message'.sender = node
           /\ Len(PlayerOf(node)) = 1
           /\ Len(ShipOf(node)) = 0
           /\ lower(strip(message'.text)) \notin EXIT_COMMANDS)
          => /\ response'.text \in {"Error loading game state", "database_error"}
             /\ response'.continue_session = FALSE
             /\ UNCHANGED <<players, ships, sectors, ports, game_state>>]_vars

\* C31: in every reachable state each sector references at most one port, each port
\* is located in exactly one sector, no two ports share a sector, and the two
\* references agree: sector s has port_id p iff port p has sector_id s
SectorPortReferencesAgree ==
    /\ \A s \in DOMAIN sectors :
          /\ Len(sectors[s].port_id) <= 1
          /\ sectors[s].port_id # None
             => \E p \in DOMAIN ports : ports[p].port_id = sectors[s].port_id[1]
    /\ \A p \in DOMAIN ports :
          Cardinality({s \in DOMAIN sectors : s = ports[p].sector_id}) = 1
    /\ \A p, q \in DOMAIN ports :
          ports[p].sector_id = ports[q].sector_id => p = q
    /\ \A s \in DOMAIN sectors : \A p \in DOMAIN ports :
          (sectors[s].port_id = Some(ports[p].port_id)) <=> (ports[p].sector_id = s)

\* the initialized universe after play: all port rows exist, a sector refers to a
\* port that has traded, and another sector has no port
PortedAndEmptySectors ==
    /\ Len(ports) = PORTS_COUNT
    /\ \E s \in DOMAIN sectors : \E p \in DOMAIN ports :
          /\ sectors[s].port_id = Some(ports[p].port_id)
          /\ ports[p].credits # PORT_CREDITS
    /\ \E s \in DOMAIN sectors : sectors[s].port_id = None

\* the band of the i-th draw of select_port_sectors: base + offset + 1 with
\* base = i * step and offset in 0..step - 1
PortBand(i) ==
    LET step == TOTAL_SECTORS \div PORTS_COUNT
    IN (i * step + 1)..(i * step + step)

\* C32: select_port_sectors returns exactly PORTS_COUNT distinct port sectors, exactly
\* one drawn from each of PORTS_COUNT equal-width bands, and those bands partition
\* 1..TOTAL_SECTORS: every sector lies in exactly one band and so can be chosen
PortBandsPartitionSectors ==
    /\ Cardinality(universe_ports) = PORTS_COUNT
    /\ \A i \in 0..(PORTS_COUNT - 1) : Cardinality(universe_ports \cap PortBand(i)) = 1
    /\ \A s \in Sectors :
          Cardinality({i \in 0..(PORTS_COUNT - 1) : s \in PortBand(i)}) = 1

\* C33: get_nearest_port(s) returns a port sector whose distance from s is minimal
\* among all port sectors, and on ties returns the lowest sector id, whatever order
\* the port set is iterated in
NearestPortLowestOnTies ==
    (DOMAIN universe_sectors # {} /\ universe_ports # {}) =>
        \A order \in IterationOrders(universe_ports) : \A s \in Sectors :
            LET found == get_nearest_port(universe_sectors, order, s)
            IN /\ found # None
               /\ found[1][1] \in universe_ports
               /\ found[1][2] = ShortestDistance(universe_sectors, s, found[1][1])
               /\ \A p \in universe_ports :
                     LET d == ShortestDistance(universe_sectors, s, p)
                     IN /\ found[1][2] <= d
                        /\ d = found[1][2] => found[1][1] <= p

\* the distance of a quantity from the target of the regeneration
Gap(quantity) ==
    IF quantity < REGENERATION_TARGET THEN REGENERATION_TARGET - quantity
    ELSE quantity - REGENERATION_TARGET

\* C34: each invocation of regenerate_port_inventory moves every commodity quantity
\* that differs from 25,000 strictly closer to 25,000 (by round(10% of the gap))
\* without passing it, and leaves exactly 25,000 unchanged; hence repeated
\* invocations with no trades eventually bring every quantity to 25,000
RegenerationReachesTarget ==
    /\ [][\A i \in DOMAIN ports :
            ports'[i] # ports[i] =>
                \A commodity \in CommoditySet :
                    LET before == ports[i].inventory[commodity].quantity
                        after == ports'[i].inventory[commodity].quantity
                    IN /\ before = REGENERATION_TARGET => after = before
                       /\ before # REGENERATION_TARGET =>
                              /\ Gap(after) < Gap(before)
                              /\ Gap(after) = Gap(before) - round(Gap(before), 10)
                              /\ (before < REGENERATION_TARGET) =>
                                     (after <= REGENERATION_TARGET)
                              /\ (before > REGENERATION_TARGET) =>
                                     (after >= REGENERATION_TARGET)]_vars
    /\ <>[](\A i \in DOMAIN ports : \A commodity \in CommoditySet :
               ports[i].inventory[commodity].quantity = REGENERATION_TARGET)

\* C35: when a user with an active plugin session sends one of the universal exit
\* commands exit, quit, menu, bbs or main as a direct message through the message
\* handler, the plugin session is ended (the stored session data cleared), so that
\* the next direct message of the user is not routed to the plugin
ExitCommandEndsSession ==
    [][\A node \in Nodes :
          (/\ message'.sender = node
           /\ Active(sessions[node])
           /\ lower(strip(message'.text)) \in EXIT_COMMANDS)
          => /\ sessions'[node] = EmptyDict
             /\ ~Active(sessions'[node])]_vars

PortStates == {"IN_PORT", "PORT_BUY", "PORT_SELL", "TRADE_QUANTITY"}

\* C36: with one session per player identity, whenever a session is in IN_PORT,
\* PORT_BUY, PORT_SELL or TRADE_QUANTITY the port id in its session data is the port
\* of the sector the player's ship occupies; hence every executed trade is against
\* the port in the ship's own sector
SessionPortIsShipsPort ==
    /\ [](\A node \in Nodes :
            (Active(sessions[node]) /\ StateOf(sessions[node]) \in PortStates) =>
                /\ Has(sessions[node], K_port_id)
                /\ Len(ShipOf(node)) = 1
                /\ Len(get_sector(sectors, ShipOf(node)[1].current_sector)) = 1
                /\ get_sector(sectors, ShipOf(node)[1].current_sector)[1].port_id
                       = Some(sessions[node][K_port_id]))
    /\ [][\A node \in Nodes :
            TradeQuantity(node) # None =>
                /\ SessionPort(sessions[node])[1].sector_id = ShipOf(node)[1].current_sector
                /\ \A i \in DOMAIN ports :
                      ports'[i] # ports[i] =>
                          ports[i].sector_id = ShipOf(node)[1].current_sector]_vars

\* a player has warped to sector 2, docked there and bought from the port of sector 2
TradedAtPortOfSecondSector ==
    /\ message.sender = Solo
    /\ response.text = "trade_executed"
    /\ StateOf(sessions[Solo]) = "IN_PORT"
    /\ ShipOf(Solo)[1].current_sector = 2
    /\ PlayerOf(Solo)[1].total_warps >= 1
    /\ SessionPort(sessions[Solo])[1].sector_id = 2
    /\ SessionPort(sessions[Solo])[1].credits > PORT_CREDITS

\* the credits of all players and ports, the cargo of all ships and the stock of
\* all ports of a commodity
TotalCredits(Pl, Po) ==
    SumOver([i \in DOMAIN Pl |-> Pl[i].credits], DOMAIN Pl)
        + SumOver([i \in DOMAIN Po |-> Po[i].credits], DOMAIN Po)
TotalUnits(Sh, Po, commodity) ==
    SumOver([i \in DOMAIN Sh |-> Sh[i].cargo[commodity]], DOMAIN Sh)
        + SumOver([i \in DOMAIN Po |-> Po[i].inventory[commodity].quantity], DOMAIN Po)

\* C37: under any interleaving of whole turns of several players, with no storage
\* failure, every executed trade conserves the totals: the player's credits plus the
\* port's credits, and for the traded commodity the ship's cargo plus the port's
\* stock, are the same after the trade as before; two players trading with the same
\* port never lose an update (the totals over all players, ships and ports change
\* only by the starting credits of a new player)
TradeConservesTotals ==
    [][/\ \A node \in Nodes :
            TradeQuantity(node) # None =>
                LET ctx == sessions[node]
                    commodity == ctx[K_trade_commodity]
                    port == SessionPort(ctx)[1]
                    port1 == get_port_by_id(ports', ctx[K_port_id])[1]
                IN /\ PlayerOf(node)'[1].credits + port1.credits
                          = PlayerOf(node)[1].credits + port.credits
                   /\ ShipOf(node)'[1].cargo[commodity] + port1.inventory[commodity].quantity
                          = ShipOf(node)[1].cargo[commodity] + port.inventory[commodity].quantity
       /\ TotalCredits(players', ports') - START_CREDITS * Len(players')
              = TotalCredits(players, ports) - START_CREDITS * Len(players)
       /\ \A commodity \in CommoditySet :
              TotalUnits(ships', ports', commodity) = TotalUnits(ships, ports, commodity)]_vars

\* two players in the same sector have both traded with its port, the one after the
\* other
TwoPlayersTradedAtOnePort ==
    /\ response.text \in {"trade_executed", "trade_sold"}
    /\ \A node \in Nodes :
          /\ Len(PlayerOf(node)) = 1
          /\ PlayerOf(node)[1].total_trades = 1
          /\ Len(ShipOf(node)) = 1
    /\ ShipOf("!n1")[1].current_sector = ShipOf("!n2")[1].current_sector
    /\ \E i \in DOMAIN ports : ports[i].credits > PORT_CREDITS + 1000

\* the inputs that lead home: a name, an answer, 0
HomeLines == WarpNameLines \cup { <<"y">>, <<"n">>, <<"0">> }

\* the number of turns the session ctx of `node` is away from SECTOR_VIEW, with the
\* players Pl: a candidate name that is taken has to be given up first
TurnsFromSectorView(node, ctx, Pl) ==
    LET state == StateOf(ctx)
    IN IF state = "REGISTRATION"
       THEN IF ~Has(ctx, K_temp_name) THEN 2
            ELSE IF create_player_fails(Pl, node, ctx[K_temp_name]) THEN 3 ELSE 1
       ELSE IF state = "SECTOR_VIEW" THEN 0
       ELSE IF state \in {"NAVIGATION", "IN_PORT", "VIEW_CARGO", "VIEW_STATS"} THEN 1
       ELSE IF state \in {"PORT_BUY", "PORT_SELL", "TRADE_QUANTITY"} THEN 2
       ELSE 4

\* C38: from every session state reachable through the engine (REGISTRATION with or
\* without a candidate name, NAVIGATION, every port state, the view states) some
\* finite sequence of inputs leads the session to SECTOR_VIEW, no reachable state
\* traps the session: the state is a named one and, unless it is SECTOR_VIEW, some
\* input has continue_session keep the session and bring it a turn nearer to
\* SECTOR_VIEW
NoSessionTrapped ==
    \A node \in Nodes :
        Active(sessions[node]) =>
            /\ StateOf(sessions[node]) \in NamedStates
            /\ StateOf(sessions[node]) # "SECTOR_VIEW" =>
                   \E line \in HomeLines, starting_sector \in 1..START_SECTOR_MAX,
                      draws \in FindPathDraws :
                       LET out == continue_session(node, sessions[node], UserInput(line),
                                                   starting_sector, draws)
                       IN /\ out.continue_session
                          /\ Active(out.session_data)
                          /\ TurnsFromSectorView(node, out.session_data, out.players)
                                 < TurnsFromSectorView(node, sessions[node], players)

\* a player who has spent the last turn is two turns deep in the port, at the
\* quantity prompt
QuantityPromptWithoutTurns ==
    /\ Active(sessions[Solo])
    /\ StateOf(sessions[Solo]) = "TRADE_QUANTITY"
    /\ PlayerOf(Solo)[1].turns = 0

RowsConsistent(Se, Po) ==
    /\ \A p, q \in DOMAIN Po : Po[p].sector_id = Po[q].sector_id => p = q
    /\ \A p \in DOMAIN Po : Po[p].sector_id \in DOMAIN Se
    /\ \A s \in DOMAIN Se : \A p \in DOMAIN Po :
          (Se[s].port_id = Some(Po[p].port_id)) <=> (Po[p].sector_id = s)

\* C40: if universe initialization is interrupted after some sector or port rows are
\* written but before the universe_initialized flag is set, a later invocation of
\* initialization still completes: it ends with the flag set, exactly
\* TOTAL_SECTORS sector rows and port rows consistent with them
InterruptedInitializationCompletes ==
    (/\ ~Constructed
     /\ (DOMAIN sectors # {} \/ DOMAIN ports # {})) =>
        \A rnd \in InitDraws :
            LET db == interrupted_initialization(sectors, ports, game_state, rnd,
                                                 TOTAL_SECTORS + PORTS_COUNT + 1)
            IN /\ get_state(db.game_state, "universe_initialized") = Some("true")
               /\ Cardinality(DOMAIN db.sectors) = TOTAL_SECTORS
               /\ RowsConsistent(db.sectors, db.ports)
====
